---- MODULE Spec2Model ----
(***************************************************************************)
(* Model of the registry sync scripts of shadcn-registries:                *)
(*   - the generic sync pipeline `sync` (registries/<name>/scripts/sync.ts *)
(*     as generated by scripts/init-registry.ts, e.g. ai-elements),        *)
(*   - the limeplay and aceternity sync scripts (`main`,                   *)
(*     `downloadComponents`, `saveComponent`, `saveRegistryIndex`),        *)
(*   - the shared validator `validateRegistryItem`.                        *)
(* One behaviour of Spec is one run of one script on an output directory   *)
(* that is empty or was left by an earlier run; the network and the file   *)
(* system are the environment.  FilterSpec, DedupSpec, RetrySpec and       *)
(* ValidateSpec call one function on its own, on every input of a bounded  *)
(* set: the filters, deduplicateItems, fetchWithRetry (shared/fetch and    *)
(* the copies in the scripts) and validateRegistryItem.                    *)
(***************************************************************************)
EXTENDS Integers, Sequences, FiniteSets, TLC

(***************************************************************************)
(* Bounds of the model.                                                    *)
(***************************************************************************)
\* longest upstream index (number of entries, duplicates included)
MaxIndexLen == 3

(***************************************************************************)
(* JSON values, as decoded by response.json().  A value is a tagged       *)
(* record; an object carries a function from its keys to values.           *)
(***************************************************************************)
Undefined == [k |-> "undefined"]
JNull == [k |-> "null"]
JBool(b) == [k |-> "boolean", b |-> b]
JNum(n) == [k |-> "number", n |-> n]
JStr(s) == [k |-> "string", s |-> s]
JArr(a) == [k |-> "array", a |-> a]
JObj(o) == [k |-> "object", o |-> o]

\* typeof v
TypeOf(v) ==
    CASE v.k = "undefined" -> "undefined"
      [] v.k = "boolean" -> "boolean"
      [] v.k = "number" -> "number"
      [] v.k = "string" -> "string"
      [] OTHER -> "object"

\* !v
Falsy(v) ==
    \/ v.k \in {"undefined", "null"}
    \/ v.k = "boolean" /\ ~v.b
    \/ v.k = "number" /\ v.n = 0
    \/ v.k = "string" /\ v.s = ""

\* v[f] for a non-null, non-undefined v (a property read that cannot throw)
Get(v, f) ==
    IF v.k = "object" /\ f \in DOMAIN v.o THEN v.o[f] ELSE Undefined

\* Array.isArray(v)
IsArray(v) == v.k = "array"

\* a property read v.f throws a TypeError iff v is null or undefined
ReadThrows(v) == v.k \in {"undefined", "null"}

\* an enumeration that lacks registry:page
VALID_ITEM_TYPES_WithoutPage ==
    { "registry:style", "registry:lib", "registry:example", "registry:block",
      "registry:component", "registry:ui", "registry:hook", "registry:theme" }

VALID_ITEM_TYPES ==
    { "registry:style", "registry:lib", "registry:example", "registry:block",
      "registry:component", "registry:ui", "registry:hook", "registry:theme",
      "registry:page" }

REGISTRY_ITEM_SCHEMA == "https://ui.shadcn.com/schema/registry-item.json"

(***************************************************************************)
(* validateRegistryItem (shared/validation).  The result is                *)
(*   [valid, error, warnings, threw]; threw = TRUE models a TypeError      *)
(*   escaping the function (a property read on a null array element).      *)
(***************************************************************************)
NoError == [msg |-> ""]
Err(m) == [msg |-> m]
ErrType(t) == [msg |-> "Invalid type: ", type |-> t]
ErrFile(i, m) == [msg |-> m, index |-> i]
Invalid(e) == [valid |-> FALSE, error |-> e, warnings |-> <<>>, threw |-> FALSE]
Threw(e) == [valid |-> FALSE, error |-> e, warnings |-> <<>>, threw |-> TRUE]

\* a validator that collects no warning
SchemaWarningsNone(data) == << >>

SchemaWarnings(data) ==
    LET s == Get(data, "$schema") IN
    IF Falsy(s) THEN << [msg |-> "Missing $schema field"] >>
    ELSE IF s # JStr(REGISTRY_ITEM_SCHEMA)
         THEN << [msg |-> "Non-standard $schema: ", schema |-> s] >>
         ELSE << >>

\* the result of the loop over data.files from index i on; NoError when every
\* element passes
RECURSIVE FilesCheck(_, _)
FilesCheck(files, i) ==
    IF i > Len(files) THEN Invalid(NoError)
    ELSE LET file == files[i] IN
         IF ReadThrows(file)
         THEN Threw(Err("TypeError: cannot read properties of null"))
         ELSE IF Falsy(Get(file, "path")) \/ TypeOf(Get(file, "path")) # "string"
         THEN Invalid(ErrFile(i - 1, "files[i]: missing path"))
         ELSE IF Falsy(Get(file, "type")) \/ TypeOf(Get(file, "type")) # "string"
         THEN Invalid(ErrFile(i - 1, "files[i]: missing type"))
         ELSE FilesCheck(files, i + 1)

AllStrings(arr) == \A i \in 1..Len(arr) : TypeOf(arr[i]) = "string"

\* a validator that looks at the type before it looks at the name
validateRegistryItemTypeFirst(item) ==
    LET name == Get(item, "name")
        type == Get(item, "type")
    IN
    IF Falsy(item) \/ TypeOf(item) # "object"
    THEN Invalid(Err("Item must be an object"))
    ELSE IF Falsy(type) \/ TypeOf(type) # "string"
    THEN Invalid(Err("Missing or invalid type field"))
    ELSE IF type.s \notin VALID_ITEM_TYPES
    THEN Invalid(ErrType(type.s))
    ELSE IF Falsy(name) \/ TypeOf(name) # "string"
    THEN Invalid(Err("Missing or invalid name field"))
    ELSE [valid |-> TRUE, error |-> NoError, warnings |-> SchemaWarnings(item),
          threw |-> FALSE]

validateRegistryItem(item) ==
    IF Falsy(item) \/ TypeOf(item) # "object"
    THEN Invalid(Err("Item must be an object"))
    ELSE
    LET data == item
        warnings == SchemaWarnings(data)
        name == Get(data, "name")
        type == Get(data, "type")
        files == Get(data, "files")
        deps == Get(data, "dependencies")
        rdeps == Get(data, "registryDependencies")
        filesRes == IF files = Undefined THEN Invalid(NoError)
                    ELSE IF ~IsArray(files)
                         THEN Invalid(Err("files must be an array"))
                         ELSE FilesCheck(files.a, 1)
    IN
    IF Falsy(name) \/ TypeOf(name) # "string"
    THEN Invalid(Err("Missing or invalid name field"))
    ELSE IF Falsy(type) \/ TypeOf(type) # "string"
    THEN Invalid(Err("Missing or invalid type field"))
    ELSE IF type.s \notin VALID_ITEM_TYPES
    THEN Invalid(ErrType(type.s))
    ELSE IF filesRes.error # NoError
    THEN filesRes
    ELSE IF deps # Undefined /\ ~IsArray(deps)
    THEN Invalid(Err("dependencies must be an array"))
    ELSE IF deps # Undefined /\ ~AllStrings(deps.a)
    THEN Invalid(Err("dependencies must be string array"))
    ELSE IF rdeps # Undefined /\ ~IsArray(rdeps)
    THEN Invalid(Err("registryDependencies must be an array"))
    ELSE IF rdeps # Undefined /\ ~AllStrings(rdeps.a)
    THEN Invalid(Err("registryDependencies must be string array"))
    ELSE [valid |-> TRUE, error |-> NoError, warnings |-> warnings, threw |-> FALSE]


(***************************************************************************)
(* The environment: upstream registry and file system.                     *)
(***************************************************************************)
\* names an upstream index can list; "index" is an item name some upstreams
\* use (limeplay/scripts/sync.ts:7), and its item file is <output>/index.json
Names == {"a", "index"}

\* the file stems under <output>: one per item name, plus the two aggregate
\* index files index.json and registry.json
Stems == Names \cup {"index", "registry"}

\* an entry of the upstream index
IndexEntry(n) == [name |-> n, type |-> "registry:component"]

\* the index responses the upstream can give: every list of at most
\* MaxIndexLen entries, repeated names included
RECURSIVE SeqsUpTo(_, _)
SeqsUpTo(S, n) ==
    IF n = 0 THEN { <<>> }
    ELSE LET shorter == SeqsUpTo(S, n - 1) IN
         shorter \cup { Append(q, x) : q \in shorter, x \in S }

IndexResponses == SeqsUpTo({ IndexEntry(n) : n \in Names }, MaxIndexLen)

\* the detail responses the upstream can give for <baseUrl>/<name>.json: an
\* item of a valid kind, or an item whose type is not in the enumeration
Item(n, t) == JObj([name |-> JStr(n), type |-> JStr(t)])
DetailResponses(n) == { Item(n, "registry:component"), Item(n, "bogus") }

\* the calls of fetchWithRetry: config.source.indexUrl, <baseUrl>/<name>.json
IndexRequest == [url |-> "indexUrl"]
DetailRequest(n) == [url |-> "baseUrl", name |-> n]

NetworkError == [msg |-> "HTTP 404: Not Found"]
WriteError == [msg |-> "EACCES: permission denied"]

\* JSON.stringify(value, null, 2): the text of a file holding the value
JsonStringify(v) == [text |-> v]
NoFile == [absent |-> TRUE]

\* the command lines and source configurations the runs are drawn from
OnlyChoices == { {}, {"a"} }

\* config.sync / config.output of the sources: every config.ts of the
\* repository has include: [] and exclude: []; output.generateIndex is an
\* option of every source config (OutputConfig)
SyncConfigs(sc) ==
    { [generateIndex |-> g, include |-> {}, exclude |-> {}] : g \in BOOLEAN }

\* getUtcTimestamp() / new Date().toISOString() of this run and of an earlier one
Now == "now"
Earlier == "earlier"

(***************************************************************************)
(* Pure steps of the scripts.                                              *)
(***************************************************************************)
\* Array.prototype.filter is SelectSeq of the Sequences module
SeqNames(s) == [i \in 1..Len(s) |-> s[i].name]
Range(s) == { s[i] : i \in 1..Len(s) }

\* sync, step 2: only, then include, then exclude
FilterSync(its, only, include, exclude) ==
    LET f1 == IF only # {} THEN SelectSeq(its, LAMBDA i : i.name \in only)
              ELSE its
        f2 == IF include # {} THEN SelectSeq(f1, LAMBDA i : i.name \in include)
              ELSE f1
    IN IF exclude # {} THEN SelectSeq(f2, LAMBDA i : i.name \notin exclude)
       ELSE f2

\* limeplay downloadComponents: the --only filter, then config.sync.exclude
FilterLimeplay(its, only, exclude) ==
    LET f1 == IF only # {} THEN SelectSeq(its, LAMBDA i : i.name \in only)
              ELSE its
    IN IF exclude # {} THEN SelectSeq(f1, LAMBDA i : i.name \notin exclude)
       ELSE f1

\* aceternity downloadComponents: the --only filter alone
FilterAceternity(its, only) ==
    IF only # {} THEN SelectSeq(its, LAMBDA i : i.name \in only) ELSE its

\* limeplay deduplicateItems: first occurrence of every name, in order
RECURSIVE DedupFrom(_, _, _)
DedupFrom(its, seen, acc) ==
    IF its = <<>> THEN acc
    ELSE IF Head(its).name \notin seen
         THEN DedupFrom(Tail(its), seen \cup {Head(its).name}, Append(acc, Head(its)))
         ELSE DedupFrom(Tail(its), seen, acc)

\* a fetchRegistryIndex that returns the items as fetched
deduplicateItemsNone(its) == its

deduplicateItems(its) == DedupFrom(its, {}, <<>>)

\* transformItem: the default hook returns its argument
transformItem(item) == item


(***************************************************************************)
(* State.                                                                  *)
(***************************************************************************)
VARIABLES
    script,      \* which sync script runs: "generic", "limeplay", "aceternity"
    config,      \* the source's config.sync / config.output (read-only)
    pc,          \* position of the running script
    opts,        \* the parsed command line: [dryRun, only]
    items,       \* the index entries returned by fetchRegistryIndex
    filtered,    \* the working set
    pos,         \* sync: index of the for-loop over filtered; main: of the save loop
    transformed, \* sync: the validated item about to be written
    result,      \* sync: the SyncResult being built
    dirExists,   \* file system: <output> exists
    files,       \* file system: stem -> text of <output>/<stem>.json, or NoFile
    queue,       \* downloadComponents: the shared work queue
    inflight,    \* downloadComponents: worker -> entry whose fetch is awaited
    results,     \* downloadComponents: the fetched components
    failed,      \* downloadComponents (limeplay): names whose fetch failed
    completed,   \* downloadComponents: the progress counter
    failedAt,    \* the step at which the run raised, "" if it has not
    diskAtStart, \* history: the file system when the run started
    requests,    \* history: the URLs fetched in this run
    log,         \* history: what happened to each working-set entry in this run
    arg,         \* a function called on its own: its arguments
    ret,         \* a function called on its own: what it returned or threw
    frame        \* fetchWithRetry called on its own: its locals and its trace

vars == << script, config, pc, opts, items, filtered, pos, transformed,
           result, dirExists, files, queue, inflight, results, failed,
           completed, failedAt, diskAtStart, requests, log, arg, ret, frame >>

callVars == << arg, ret, frame >>
dlVars == << queue, inflight, results, failed, completed >>
syncVars == << transformed, result >>

\* the limeplay and aceternity scripts fix the concurrency in the script; the
\* model scales the source's 5 down so that the queue outlives the spawn
CONCURRENCY == 2
Workers == 1..CONCURRENCY
NoEntry == [name |-> "", type |-> ""]
NoItem == Undefined

\* no function is called on its own while a script runs
NoCall == [fn |-> "none"]

EmptyResult ==
    [ success |-> <<>>, failed |-> <<>>, skipped |-> <<>>,
      stats |-> [total |-> 0, synced |-> 0, failed |-> 0, skipped |-> 0] ]

Disk == [dirExists |-> dirExists, files |-> files]

\* a run starts: the command line is parsed and every per-run variable is fresh
Begin(o) ==
    /\ pc = "Idle"
    /\ opts' = o
    /\ pc' = "FetchingIndex"
    /\ items' = <<>>
    /\ filtered' = <<>>
    /\ pos' = 1
    /\ transformed' = NoItem
    /\ result' = EmptyResult
    /\ queue' = <<>>
    /\ inflight' = [w \in Workers |-> NoEntry]
    /\ results' = <<>>
    /\ failed' = <<>>
    /\ completed' = 0
    /\ failedAt' = ""
    /\ diskAtStart' = Disk
    /\ requests' = <<>>
    /\ log' = <<>>
    /\ UNCHANGED << callVars, script, config, dirExists, files >>

\* the run raises to its caller (sync) or exits with status 1 (main)
Raise(step) ==
    /\ pc' = "Failed"
    /\ failedAt' = step

(***************************************************************************)
(* The generic sync pipeline: sync(options).                               *)
(***************************************************************************)
\* line 202: the output directory is created unless this is a dry run
CreatesOutputDir(o) == ~o.dryRun

\* a sync that ignores --dry-run in its loop
SkipsItemNever(o) == FALSE

\* line 223: in a dry run the entry is recorded without fetch or write
SkipsItem(o) == o.dryRun

\* a sync that writes whatever it fetched
RejectsItemNever(validation) == FALSE

\* line 236: a validation result that makes sync throw before the write
RejectsItem(validation) == ~validation.valid

\* a catch block that logs the error and forgets the entry
RecordFailureDropped(res, name, error) == res

\* line 255: result.failed.push({name, error})
RecordFailure(res, name, error) ==
    [res EXCEPT !.failed = Append(@, [name |-> name, error |-> error])]

\* lines 225, 250: result.success.push(name)
RecordSuccess(res, name) == [res EXCEPT !.success = Append(@, name)]

\* line 260: the aggregate index files are generated
GeneratesIndex(o, c) == ~o.dryRun /\ c.generateIndex

\* lines 269-275: the summary of an entry in the aggregate index (fields that
\* are undefined are dropped by JSON.stringify)
Summary(entry) == [name |-> entry.name, type |-> entry.type]

\* lines 261-276: the aggregate index built from the working set and the
\* success list
BuildSyncIndex(flt, success, now) ==
    [ syncedAt |-> now,
      itemCount |-> Len(success),
      items |-> LET kept == SelectSeq(flt, LAMBDA c : c.name \in Range(success))
                IN [i \in 1..Len(kept) |-> Summary(kept[i])] ]

\* lines 293-299: the final stats
FinalStats(its, res) ==
    [ total |-> Len(its), synced |-> Len(res.success),
      failed |-> Len(res.failed), skipped |-> Len(res.skipped) ]

SyncStart ==
    /\ script = "generic"
    /\ \E d \in BOOLEAN, o \in OnlyChoices : Begin([dryRun |-> d, only |-> o])

\* a sync that creates the output directory before it fetches the index
SyncFetchIndexFailAfterMkdir ==
    /\ script = "generic" /\ pc = "FetchingIndex"
    /\ requests' = Append(requests, IndexRequest)
    /\ dirExists' = (dirExists \/ ~opts.dryRun)
    /\ Raise("FetchingIndex")
    /\ UNCHANGED << callVars, script, config, opts, items, filtered, pos, files,
                    diskAtStart, log >>
    /\ UNCHANGED << dlVars, syncVars >>

\* line 179: fetchRegistryIndex fails after its retries; sync rejects
SyncFetchIndexFail ==
    /\ script = "generic" /\ pc = "FetchingIndex"
    /\ requests' = Append(requests, IndexRequest)
    /\ Raise("FetchingIndex")
    /\ UNCHANGED << callVars, script, config, opts, items, filtered, pos, dirExists,
                    files, diskAtStart, log >>
    /\ UNCHANGED << dlVars, syncVars >>

\* lines 179-199: the index arrives and is filtered
SyncFetchIndex ==
    /\ script = "generic" /\ pc = "FetchingIndex"
    /\ \E ix \in IndexResponses :
         /\ items' = ix
         /\ filtered' = FilterSync(ix, opts.only, config.include, config.exclude)
         /\ result' = [EmptyResult EXCEPT !.stats.total = Len(ix)]
    /\ requests' = Append(requests, IndexRequest)
    /\ pc' = IF CreatesOutputDir(opts) THEN "CreatingDir" ELSE "Downloading"
    /\ UNCHANGED << callVars, script, config, opts, pos, transformed, dirExists,
                    files, failedAt, diskAtStart, log >>
    /\ UNCHANGED dlVars

\* line 203: mkdir(OUTPUT_DIR, {recursive: true})
SyncMkdir ==
    /\ script = "generic" /\ pc = "CreatingDir"
    /\ dirExists' = TRUE
    /\ pc' = "Downloading"
    /\ UNCHANGED << callVars, script, config, opts, items, filtered, pos, files,
                    failedAt, diskAtStart, requests, log >>
    /\ UNCHANGED << dlVars, syncVars >>

\* line 203: mkdir fails; the error is not caught inside sync
SyncMkdirFail ==
    /\ script = "generic" /\ pc = "CreatingDir"
    /\ Raise("CreatingDir")
    /\ UNCHANGED << callVars, script, config, opts, items, filtered, pos, dirExists,
                    files, diskAtStart, requests, log >>
    /\ UNCHANGED << dlVars, syncVars >>

\* lines 223-227: a dry run records the entry as succeeded
SyncDryRunItem ==
    /\ script = "generic" /\ pc = "Downloading" /\ pos <= Len(filtered)
    /\ SkipsItem(opts)
    /\ result' = RecordSuccess(result, filtered[pos].name)
    /\ log' = Append(log, [name |-> filtered[pos].name, fetch |-> "none",
                           detail |-> NoItem, valid |-> FALSE, write |-> "none"])
    /\ pos' = pos + 1
    /\ UNCHANGED << callVars, script, config, pc, opts, items, filtered, transformed,
                    dirExists, files, failedAt, diskAtStart, requests >>
    /\ UNCHANGED dlVars

\* lines 231, 251-255: fetchComponentDetail fails; the entry goes to failed
SyncFetchDetailFail ==
    /\ script = "generic" /\ pc = "Downloading" /\ pos <= Len(filtered)
    /\ ~SkipsItem(opts)
    /\ requests' = Append(requests, DetailRequest(filtered[pos].name))
    /\ result' = RecordFailure(result, filtered[pos].name, NetworkError)
    /\ log' = Append(log, [name |-> filtered[pos].name, fetch |-> "failed",
                           detail |-> NoItem, valid |-> FALSE, write |-> "none"])
    /\ pos' = pos + 1
    /\ UNCHANGED << callVars, script, config, pc, opts, items, filtered, transformed,
                    dirExists, files, failedAt, diskAtStart >>
    /\ UNCHANGED dlVars

\* lines 231-238, 251-255: the detail arrives, is transformed and validated;
\* an invalid item goes to failed, a valid one goes on to be written
SyncFetchDetail ==
    /\ script = "generic" /\ pc = "Downloading" /\ pos <= Len(filtered)
    /\ ~SkipsItem(opts)
    /\ requests' = Append(requests, DetailRequest(filtered[pos].name))
    /\ \E detail \in DetailResponses(filtered[pos].name) :
         LET t == transformItem(detail)
             validation == validateRegistryItem(t)
         IN IF RejectsItem(validation)
            THEN /\ result' = RecordFailure(result, filtered[pos].name,
                                           validation.error)
                 /\ log' = Append(log, [name |-> filtered[pos].name,
                                        fetch |-> "ok", detail |-> t,
                                        valid |-> validation.valid,
                                        write |-> "none"])
                 /\ pos' = pos + 1
                 /\ UNCHANGED << pc, transformed >>
            ELSE /\ transformed' = t
                 /\ pc' = "Persisting"
                 /\ UNCHANGED << result, log, pos >>
    /\ UNCHANGED << callVars, script, config, opts, items, filtered, dirExists,
                    files, failedAt, diskAtStart >>
    /\ UNCHANGED dlVars

\* lines 241-250: ensureParentDir and writeFile succeed
SyncWriteItem ==
    /\ script = "generic" /\ pc = "Persisting"
    /\ dirExists' = TRUE
    /\ files' = [files EXCEPT ![filtered[pos].name] = JsonStringify(transformed)]
    /\ result' = RecordSuccess(result, filtered[pos].name)
    /\ log' = Append(log, [name |-> filtered[pos].name, fetch |-> "ok",
                           detail |-> transformed,
                           valid |-> validateRegistryItem(transformed).valid,
                           write |-> "ok"])
    /\ transformed' = NoItem
    /\ pos' = pos + 1
    /\ pc' = "Downloading"
    /\ UNCHANGED << callVars, script, config, opts, items, filtered, failedAt,
                    diskAtStart, requests >>
    /\ UNCHANGED dlVars

\* lines 241-247, 251-255: ensureParentDir or writeFile fails; caught
SyncWriteItemFail ==
    /\ script = "generic" /\ pc = "Persisting"
    /\ result' = RecordFailure(result, filtered[pos].name, WriteError)
    /\ log' = Append(log, [name |-> filtered[pos].name, fetch |-> "ok",
                           detail |-> transformed,
                           valid |-> validateRegistryItem(transformed).valid,
                           write |-> "failed"])
    /\ transformed' = NoItem
    /\ pos' = pos + 1
    /\ pc' = "Downloading"
    /\ UNCHANGED << callVars, script, config, opts, items, filtered, dirExists,
                    files, failedAt, diskAtStart, requests >>
    /\ UNCHANGED dlVars

\* a sync that appends the new index to the items of the index it finds
SyncWriteIndexJsonMerged ==
    /\ script = "generic" /\ pc = "Downloading" /\ pos > Len(filtered)
    /\ GeneratesIndex(opts, config)
    /\ files' = [files EXCEPT !["index"] =
                   LET new == BuildSyncIndex(filtered, result.success, Now)
                       old == files["index"]
                   IN JsonStringify(
                        IF old # NoFile /\ "syncedAt" \in DOMAIN old.text
                        THEN [new EXCEPT !.items = old.text.items \o @]
                        ELSE new)]
    /\ pc' = "GeneratingIndex"
    /\ UNCHANGED << callVars, script, config, opts, items, filtered, pos, dirExists,
                    failedAt, diskAtStart, requests, log >>
    /\ UNCHANGED << dlVars, syncVars >>

\* lines 260-282: the loop is over, the index is built and index.json written
SyncWriteIndexJson ==
    /\ script = "generic" /\ pc = "Downloading" /\ pos > Len(filtered)
    /\ GeneratesIndex(opts, config)
    /\ files' = [files EXCEPT !["index"] =
                   JsonStringify(BuildSyncIndex(filtered, result.success, Now))]
    /\ pc' = "GeneratingIndex"
    /\ UNCHANGED << callVars, script, config, opts, items, filtered, pos, dirExists,
                    failedAt, diskAtStart, requests, log >>
    /\ UNCHANGED << dlVars, syncVars >>

\* lines 278-282: writing index.json fails; the error is not caught inside sync
SyncWriteIndexJsonFail ==
    /\ script = "generic" /\ pc = "Downloading" /\ pos > Len(filtered)
    /\ GeneratesIndex(opts, config)
    /\ Raise("GeneratingIndex")
    /\ UNCHANGED << callVars, script, config, opts, items, filtered, pos, dirExists,
                    files, diskAtStart, requests, log >>
    /\ UNCHANGED << dlVars, syncVars >>

\* lines 283-306: registry.json is written, the stats are set, sync returns
SyncWriteRegistryJson ==
    /\ script = "generic" /\ pc = "GeneratingIndex"
    /\ files' = [files EXCEPT !["registry"] =
                   JsonStringify(BuildSyncIndex(filtered, result.success, Now))]
    /\ result' = [result EXCEPT !.stats = FinalStats(items, result)]
    /\ pc' = "Done"
    /\ UNCHANGED << callVars, script, config, opts, items, filtered, pos,
                    transformed, dirExists, failedAt, diskAtStart, requests, log >>
    /\ UNCHANGED dlVars

\* lines 283-287: writing registry.json fails; the error is not caught
SyncWriteRegistryJsonFail ==
    /\ script = "generic" /\ pc = "GeneratingIndex"
    /\ Raise("GeneratingIndex")
    /\ UNCHANGED << callVars, script, config, opts, items, filtered, pos, dirExists,
                    files, diskAtStart, requests, log >>
    /\ UNCHANGED << dlVars, syncVars >>

\* lines 260, 292-306: no index is generated; the stats are set, sync returns
SyncFinish ==
    /\ script = "generic" /\ pc = "Downloading" /\ pos > Len(filtered)
    /\ ~GeneratesIndex(opts, config)
    /\ result' = [result EXCEPT !.stats = FinalStats(items, result)]
    /\ pc' = "Done"
    /\ UNCHANGED << callVars, script, config, opts, items, filtered, pos,
                    transformed, dirExists, files, failedAt, diskAtStart,
                    requests, log >>
    /\ UNCHANGED dlVars

SyncNext ==
    \/ SyncStart
    \/ SyncFetchIndexFail
    \/ SyncFetchIndex
    \/ SyncMkdir
    \/ SyncMkdirFail
    \/ SyncDryRunItem
    \/ SyncFetchDetailFail
    \/ SyncFetchDetail
    \/ SyncWriteItem
    \/ SyncWriteItemFail
    \/ SyncWriteIndexJson
    \/ SyncWriteIndexJsonFail
    \/ SyncWriteRegistryJson
    \/ SyncWriteRegistryJsonFail
    \/ SyncFinish


(***************************************************************************)
(* The limeplay and aceternity scripts: main().                            *)
(***************************************************************************)
\* one worker per entry, whatever the limit
MinUnlimited(x, y) == y

Min(x, y) == IF x <= y THEN x ELSE y

\* a save step that ignores --dry-run
SaveSkipsNever(o) == FALSE

\* saveComponent / saveRegistryIndex: `if (dryRun) return` before any write
SaveSkips(o) == o.dryRun

\* limeplay fetchRegistryIndex deduplicates; aceternity's does not
IndexItems(sc, ix) == IF sc = "limeplay" THEN deduplicateItems(ix) ELSE ix

\* the filters at the head of downloadComponents
FilterMain(sc, its, o, c) ==
    IF sc = "limeplay" THEN FilterLimeplay(its, o.only, c.exclude)
    ELSE FilterAceternity(its, o.only)

\* saveRegistryIndex: the aggregate index built from the fetched components
BuildMainIndex(components, now) ==
    [ syncedAt |-> now,
      itemCount |-> Len(components),
      items |-> [i \in 1..Len(components) |->
                   [name |-> Get(components[i], "name").s,
                    type |-> Get(components[i], "type").s]] ]

\* the stem of the file saveComponent writes: item.name of the fetched item
ComponentStem(component) == Get(component, "name").s

MainStart ==
    /\ script \in {"limeplay", "aceternity"}
    /\ \E d \in BOOLEAN, o \in OnlyChoices : Begin([dryRun |-> d, only |-> o])

\* main: fetchRegistryIndex throws; main catches and exits with status 1
MainFetchIndexFail ==
    /\ script \in {"limeplay", "aceternity"} /\ pc = "FetchingIndex"
    /\ requests' = Append(requests, IndexRequest)
    /\ Raise("FetchingIndex")
    /\ UNCHANGED << callVars, script, config, opts, items, filtered, pos, dirExists,
                    files, diskAtStart, log >>
    /\ UNCHANGED << dlVars, syncVars >>

\* main: the index arrives; downloadComponents filters it, fills the queue and
\* spawns min(CONCURRENCY, n) workers, each of which shifts one entry and
\* issues its fetch before the first await
MainFetchIndex ==
    /\ script \in {"limeplay", "aceternity"} /\ pc = "FetchingIndex"
    /\ \E ix \in IndexResponses :
         LET its == IndexItems(script, ix)
             flt == FilterMain(script, its, opts, config)
             m == Min(CONCURRENCY, Len(flt))
         IN /\ items' = its
            /\ filtered' = flt
            /\ inflight' = [w \in Workers |-> IF w <= m THEN flt[w] ELSE NoEntry]
            /\ queue' = SubSeq(flt, m + 1, Len(flt))
            /\ requests' = Append(requests, IndexRequest) \o
                             [i \in 1..m |-> DetailRequest(flt[i].name)]
    /\ pc' = "Downloading"
    /\ UNCHANGED << callVars, script, config, opts, pos, dirExists, files, failedAt,
                    diskAtStart, log, results, failed, completed >>
    /\ UNCHANGED syncVars

\* processQueue with a counter read before the await and written after it: the
\* update is lost when another worker's fetch is still awaited
WorkerContinuesStaleCount(w, component) ==
    /\ results' = IF ~Falsy(component) THEN Append(results, component) ELSE results
    /\ failed' = IF Falsy(component) /\ script = "limeplay"
                 THEN Append(failed, inflight[w].name) ELSE failed
    /\ completed' = IF \E v \in Workers \ {w} : inflight[v] # NoEntry
                    THEN completed ELSE completed + 1
    /\ log' = Append(log, [name |-> inflight[w].name,
                           fetch |-> IF Falsy(component) THEN "failed" ELSE "ok",
                           detail |-> component,
                           valid |-> validateRegistryItem(component).valid,
                           write |-> "none"])
    /\ IF queue # <<>>
       THEN /\ inflight' = [inflight EXCEPT ![w] = Head(queue)]
            /\ queue' = Tail(queue)
            /\ requests' = Append(requests, DetailRequest(Head(queue).name))
       ELSE /\ inflight' = [inflight EXCEPT ![w] = NoEntry]
            /\ UNCHANGED << queue, requests >>

\* processQueue, after `await fetchComponent`: record the outcome, count it,
\* and shift the next entry if the queue is not empty
WorkerContinues(w, component) ==
    /\ results' = IF ~Falsy(component) THEN Append(results, component) ELSE results
    /\ failed' = IF Falsy(component) /\ script = "limeplay"
                 THEN Append(failed, inflight[w].name) ELSE failed
    /\ completed' = completed + 1
    /\ log' = Append(log, [name |-> inflight[w].name,
                           fetch |-> IF Falsy(component) THEN "failed" ELSE "ok",
                           detail |-> component,
                           valid |-> validateRegistryItem(component).valid,
                           write |-> "none"])
    /\ IF queue # <<>>
       THEN /\ inflight' = [inflight EXCEPT ![w] = Head(queue)]
            /\ queue' = Tail(queue)
            /\ requests' = Append(requests, DetailRequest(Head(queue).name))
       ELSE /\ inflight' = [inflight EXCEPT ![w] = NoEntry]
            /\ UNCHANGED << queue, requests >>

\* a worker's detail fetch returns an item
ProcessQueue(w) ==
    /\ script \in {"limeplay", "aceternity"} /\ pc = "Downloading"
    /\ inflight[w] # NoEntry
    /\ \E component \in DetailResponses(inflight[w].name) :
         WorkerContinues(w, component)
    /\ UNCHANGED << callVars, script, config, pc, opts, items, filtered, pos,
                    dirExists, files, failedAt, diskAtStart >>
    /\ UNCHANGED syncVars

\* a failed detail fetch that ends its worker instead of being skipped
ProcessQueueFetchFailStops(w) ==
    /\ script \in {"limeplay", "aceternity"} /\ pc = "Downloading"
    /\ inflight[w] # NoEntry
    /\ failed' = IF script = "limeplay"
                 THEN Append(failed, inflight[w].name) ELSE failed
    /\ completed' = completed + 1
    /\ log' = Append(log, [name |-> inflight[w].name, fetch |-> "failed",
                           detail |-> JNull, valid |-> FALSE, write |-> "none"])
    /\ inflight' = [inflight EXCEPT ![w] = NoEntry]
    /\ UNCHANGED << callVars, script, config, pc, opts, items, filtered, pos,
                    dirExists, files, failedAt, diskAtStart, queue, requests,
                    results >>
    /\ UNCHANGED syncVars

\* a worker's detail fetch fails after its retries: fetchComponent returns null
ProcessQueueFetchFail(w) ==
    /\ script \in {"limeplay", "aceternity"} /\ pc = "Downloading"
    /\ inflight[w] # NoEntry
    /\ WorkerContinues(w, JNull)
    /\ UNCHANGED << callVars, script, config, pc, opts, items, filtered, pos,
                    dirExists, files, failedAt, diskAtStart >>
    /\ UNCHANGED syncVars

\* a main that goes on to save when nothing was downloaded
MainDownloadedSavesAnyway ==
    /\ script \in {"limeplay", "aceternity"} /\ pc = "Downloading"
    /\ \A w \in Workers : inflight[w] = NoEntry
    /\ pc' = "Persisting"
    /\ pos' = 1
    /\ UNCHANGED << callVars, script, config, opts, items, filtered, dirExists,
                    files, failedAt, diskAtStart, requests, log >>
    /\ UNCHANGED << dlVars, syncVars >>

\* main: Promise.all(workers) resolves; with no component main returns
MainDownloaded ==
    /\ script \in {"limeplay", "aceternity"} /\ pc = "Downloading"
    /\ \A w \in Workers : inflight[w] = NoEntry
    /\ pc' = IF Len(results) = 0 THEN "Done" ELSE "Persisting"
    /\ pos' = 1
    /\ UNCHANGED << callVars, script, config, opts, items, filtered, dirExists,
                    files, failedAt, diskAtStart, requests, log >>
    /\ UNCHANGED << dlVars, syncVars >>

\* saveComponent in a dry run: nothing is written
SaveComponentDryRun ==
    /\ script \in {"limeplay", "aceternity"} /\ pc = "Persisting"
    /\ pos <= Len(results)
    /\ SaveSkips(opts)
    /\ pos' = pos + 1
    /\ UNCHANGED << callVars, script, config, pc, opts, items, filtered, dirExists,
                    files, failedAt, diskAtStart, requests, log >>
    /\ UNCHANGED << dlVars, syncVars >>

\* saveComponent: ensureDir and writeFile succeed
SaveComponent ==
    /\ script \in {"limeplay", "aceternity"} /\ pc = "Persisting"
    /\ pos <= Len(results)
    /\ ~SaveSkips(opts)
    /\ dirExists' = TRUE
    /\ files' = [files EXCEPT ![ComponentStem(results[pos])] =
                   JsonStringify(results[pos])]
    /\ log' = Append(log, [name |-> ComponentStem(results[pos]), fetch |-> "ok",
                           detail |-> results[pos],
                           valid |-> validateRegistryItem(results[pos]).valid,
                           write |-> "ok"])
    /\ pos' = pos + 1
    /\ UNCHANGED << callVars, script, config, pc, opts, items, filtered, failedAt,
                    diskAtStart, requests >>
    /\ UNCHANGED << dlVars, syncVars >>

\* saveComponent: ensureDir or writeFile fails; main catches and exits with 1
SaveComponentFail ==
    /\ script \in {"limeplay", "aceternity"} /\ pc = "Persisting"
    /\ pos <= Len(results)
    /\ ~SaveSkips(opts)
    /\ log' = Append(log, [name |-> ComponentStem(results[pos]), fetch |-> "ok",
                           detail |-> results[pos],
                           valid |-> validateRegistryItem(results[pos]).valid,
                           write |-> "failed"])
    /\ Raise("Persisting")
    /\ UNCHANGED << callVars, script, config, opts, items, filtered, pos, dirExists,
                    files, diskAtStart, requests >>
    /\ UNCHANGED << dlVars, syncVars >>

\* saveRegistryIndex in a dry run: nothing is written, main ends
SaveRegistryIndexDryRun ==
    /\ script \in {"limeplay", "aceternity"} /\ pc = "Persisting"
    /\ pos > Len(results)
    /\ SaveSkips(opts)
    /\ pc' = "Done"
    /\ UNCHANGED << callVars, script, config, opts, items, filtered, pos, dirExists,
                    files, failedAt, diskAtStart, requests, log >>
    /\ UNCHANGED << dlVars, syncVars >>

\* an index written before the item files are
SaveRegistryIndexEarly ==
    /\ script \in {"limeplay", "aceternity"} /\ pc = "Persisting"
    /\ ~SaveSkips(opts)
    /\ dirExists' = TRUE
    /\ files' = [files EXCEPT !["index"] =
                   JsonStringify(BuildMainIndex(results, Now))]
    /\ pc' = "GeneratingIndex"
    /\ UNCHANGED << callVars, script, config, opts, items, filtered, pos, failedAt,
                    diskAtStart, requests, log >>
    /\ UNCHANGED << dlVars, syncVars >>

\* saveRegistryIndex: ensureDir and the write of index.json succeed
SaveRegistryIndex ==
    /\ script \in {"limeplay", "aceternity"} /\ pc = "Persisting"
    /\ pos > Len(results)
    /\ ~SaveSkips(opts)
    /\ dirExists' = TRUE
    /\ files' = [files EXCEPT !["index"] =
                   JsonStringify(BuildMainIndex(results, Now))]
    /\ pc' = "GeneratingIndex"
    /\ UNCHANGED << callVars, script, config, opts, items, filtered, pos, failedAt,
                    diskAtStart, requests, log >>
    /\ UNCHANGED << dlVars, syncVars >>

\* saveRegistryIndex: ensureDir or the write of index.json fails
SaveRegistryIndexFail ==
    /\ script \in {"limeplay", "aceternity"} /\ pc = "Persisting"
    /\ pos > Len(results)
    /\ ~SaveSkips(opts)
    /\ Raise("GeneratingIndex")
    /\ UNCHANGED << callVars, script, config, opts, items, filtered, pos, dirExists,
                    files, diskAtStart, requests, log >>
    /\ UNCHANGED << dlVars, syncVars >>

\* saveRegistryIndex: registry.json is written; main prints its summary
SaveRegistryJson ==
    /\ script \in {"limeplay", "aceternity"} /\ pc = "GeneratingIndex"
    /\ files' = [files EXCEPT !["registry"] =
                   JsonStringify(BuildMainIndex(results, Now))]
    /\ pc' = "Done"
    /\ UNCHANGED << callVars, script, config, opts, items, filtered, pos, dirExists,
                    failedAt, diskAtStart, requests, log >>
    /\ UNCHANGED << dlVars, syncVars >>

\* saveRegistryIndex: the write of registry.json fails
SaveRegistryJsonFail ==
    /\ script \in {"limeplay", "aceternity"} /\ pc = "GeneratingIndex"
    /\ Raise("GeneratingIndex")
    /\ UNCHANGED << callVars, script, config, opts, items, filtered, pos, dirExists,
                    files, diskAtStart, requests, log >>
    /\ UNCHANGED << dlVars, syncVars >>

MainNext ==
    \/ MainStart
    \/ MainFetchIndexFail
    \/ MainFetchIndex
    \/ \E w \in Workers : ProcessQueue(w)
    \/ \E w \in Workers : ProcessQueueFetchFail(w)
    \/ MainDownloaded
    \/ SaveComponentDryRun
    \/ SaveComponent
    \/ SaveComponentFail
    \/ SaveRegistryIndexDryRun
    \/ SaveRegistryIndex
    \/ SaveRegistryIndexFail
    \/ SaveRegistryJson
    \/ SaveRegistryJsonFail

(***************************************************************************)
(* The initial states: the script and its configuration are fixed, and the *)
(* output directory is empty or is what an earlier, fully successful       *)
(* non-dry-run of the same script over the index [a] left behind.          *)
(***************************************************************************)
EmptyDisk == [dirExists |-> FALSE, files |-> [s \in Stems |-> NoFile]]

SyncedDisk(sc, c) ==
    LET a == Item("a", "registry:component")
        index == IF sc = "generic"
                 THEN BuildSyncIndex(<<IndexEntry("a")>>, <<"a">>, Earlier)
                 ELSE BuildMainIndex(<<a>>, Earlier)
        written == sc # "generic" \/ GeneratesIndex([dryRun |-> FALSE, only |-> {}], c)
    IN [ dirExists |-> TRUE,
         files |-> [s \in Stems |->
                      IF s = "a" THEN JsonStringify(a)
                      ELSE IF s \in {"index", "registry"} /\ written
                           THEN JsonStringify(index)
                           ELSE NoFile] ]

PriorDisks(sc, c) == { EmptyDisk, SyncedDisk(sc, c) }

Init ==
    /\ script \in {"generic", "limeplay", "aceternity"}
    /\ config \in SyncConfigs(script)
    /\ pc = "Idle"
    /\ opts = [dryRun |-> FALSE, only |-> {}]
    /\ items = <<>>
    /\ filtered = <<>>
    /\ pos = 1
    /\ transformed = NoItem
    /\ result = EmptyResult
    /\ \E d \in PriorDisks(script, config) :
         /\ dirExists = d.dirExists
         /\ files = d.files
    /\ queue = <<>>
    /\ inflight = [w \in Workers |-> NoEntry]
    /\ results = <<>>
    /\ failed = <<>>
    /\ completed = 0
    /\ failedAt = ""
    /\ diskAtStart = Disk
    /\ requests = <<>>
    /\ log = <<>>
    /\ arg = NoCall
    /\ ret = NoCall
    /\ frame = NoCall


Next == SyncNext \/ MainNext

Spec == Init /\ [][Next]_vars


(***************************************************************************)
(* Functions called on their own.  No script runs: the variables of the    *)
(* scripts keep their initial values; arg holds the arguments of the call  *)
(* and ret what the call returned.                                         *)
(***************************************************************************)
mainVars == << script, config, pc, opts, items, filtered, pos, transformed,
               result, dirExists, files, queue, inflight, results, failed,
               completed, failedAt, diskAtStart, requests, log >>

NoScriptRuns ==
    /\ script = "generic"
    /\ config = [generateIndex |-> TRUE, include |-> {}, exclude |-> {}]
    /\ pc = "Idle"
    /\ opts = [dryRun |-> FALSE, only |-> {}]
    /\ items = <<>>
    /\ filtered = <<>>
    /\ pos = 1
    /\ transformed = NoItem
    /\ result = EmptyResult
    /\ dirExists = EmptyDisk.dirExists
    /\ files = EmptyDisk.files
    /\ queue = <<>>
    /\ inflight = [w \in Workers |-> NoEntry]
    /\ results = <<>>
    /\ failed = <<>>
    /\ completed = 0
    /\ failedAt = ""
    /\ diskAtStart = Disk
    /\ requests = <<>>
    /\ log = <<>>

Returned(v) == [fn |-> "returned", value |-> v]

(***************************************************************************)
(* The filters of the three scripts, applied to any index and any          *)
(* --only / include / exclude lists.                                       *)
(***************************************************************************)
FilterNames == {"a", "b", "c"}

FilterInit ==
    /\ NoScriptRuns
    /\ \E sc \in {"generic", "limeplay", "aceternity"},
          its \in SeqsUpTo({ IndexEntry(n) : n \in FilterNames }, MaxIndexLen),
          only \in SUBSET FilterNames,
          include \in SUBSET FilterNames,
          exclude \in SUBSET FilterNames :
         arg = [fn |-> "filter", script |-> sc, items |-> its, only |-> only,
                include |-> include, exclude |-> exclude]
    /\ ret = NoCall
    /\ frame = NoCall

\* config.ts:183-197
CallFilterSync ==
    /\ arg.fn = "filter" /\ arg.script = "generic" /\ ret = NoCall
    /\ ret' = Returned(FilterSync(arg.items, arg.only, arg.include, arg.exclude))
    /\ UNCHANGED << mainVars, arg, frame >>

\* limeplay sync.ts:197-207
CallFilterLimeplay ==
    /\ arg.fn = "filter" /\ arg.script = "limeplay" /\ ret = NoCall
    /\ ret' = Returned(FilterLimeplay(arg.items, arg.only, arg.exclude))
    /\ UNCHANGED << mainVars, arg, frame >>

\* aceternity sync.ts:161-164
CallFilterAceternity ==
    /\ arg.fn = "filter" /\ arg.script = "aceternity" /\ ret = NoCall
    /\ ret' = Returned(FilterAceternity(arg.items, arg.only))
    /\ UNCHANGED << mainVars, arg, frame >>

FilterNext == CallFilterSync \/ CallFilterLimeplay \/ CallFilterAceternity

FilterSpec == FilterInit /\ [][FilterNext]_vars


(***************************************************************************)
(* deduplicateItems, applied to any list of index entries; entries of one  *)
(* name differ in their type, so that occurrences can be told apart.       *)
(***************************************************************************)
DedupEntries ==
    { [name |-> n, type |-> t] :
        n \in {"a", "b"}, t \in {"registry:component", "registry:ui"} }

DedupInit ==
    /\ NoScriptRuns
    /\ \E its \in SeqsUpTo(DedupEntries, MaxIndexLen) :
         arg = [fn |-> "deduplicateItems", items |-> its, again |-> FALSE]
    /\ ret = NoCall
    /\ frame = NoCall

\* limeplay sync.ts:140-154
CallDeduplicateItems ==
    /\ arg.fn = "deduplicateItems" /\ ret = NoCall
    /\ ret' = Returned(deduplicateItems(arg.items))
    /\ UNCHANGED << mainVars, arg, frame >>

\* the list returned is passed to deduplicateItems once more
CallDeduplicateItemsAgain ==
    /\ arg.fn = "deduplicateItems" /\ ret # NoCall /\ ~arg.again
    /\ arg' = [fn |-> "deduplicateItems", items |-> ret.value, again |-> TRUE]
    /\ ret' = NoCall
    /\ UNCHANGED << mainVars, frame >>

DedupNext == CallDeduplicateItems \/ CallDeduplicateItemsAgain

DedupSpec == DedupInit /\ [][DedupNext]_vars


(***************************************************************************)
(* fetchWithRetry: the shared one (shared/fetch), called with any retries  *)
(* and delay options, and the copies in the limeplay and aceternity        *)
(* scripts, called with their default retries.  frame holds the loop       *)
(* counter and lastError, and the trace of attempts and sleeps.            *)
(***************************************************************************)
\* largest options.retries
MaxRetries == 3

\* options.delay
BaseDelays == {100, 1000}

\* limeplay sync.ts:73-74, aceternity sync.ts:65-66
RETRY_COUNT == 3
RETRY_DELAY == 1000

\* what an attempt can throw inside the try block: fetch rejects, the status
\* is not 2xx, response.json() rejects; the Error object of attempt i is
\* told apart from those of the other attempts by its attempt field
AttemptErrors(i) ==
    { [msg |-> m, attempt |-> i] :
        m \in { "fetch failed", "HTTP 500: Internal Server Error",
                "SyntaxError: Unexpected token" } }

Thrown(e) == [fn |-> "thrown", error |-> e]

\* a retry loop that gives up one attempt early
RetriesLeftOffByOne(attempt, retries) == attempt + 1 < retries

\* fetch.ts:62, limeplay sync.ts:123: `if (attempt < retries)`
RetriesLeft(attempt, retries) == attempt < retries

\* a backoff that grows by baseDelay per attempt
BackoffDelayLinear(baseDelay, attempt) == baseDelay * (attempt + 1)

\* fetch.ts:64: baseDelay * Math.pow(2, attempt)
BackoffDelay(baseDelay, attempt) == baseDelay * 2^attempt

\* limeplay sync.ts:125, aceternity sync.ts:116: RETRY_DELAY * (i + 1)
LocalDelay(i) == RETRY_DELAY * (i + 1)

\* the sleep of a layer after its failed attempt number `attempt`
DelayOf(a, attempt) ==
    IF a.layer = "shared" THEN BackoffDelay(a.baseDelay, attempt)
    ELSE LocalDelay(attempt)

RetryCalls ==
    { [fn |-> "fetchWithRetry", layer |-> "shared", retries |-> r, baseDelay |-> d] :
        r \in 0..MaxRetries, d \in BaseDelays }
    \cup
    { [fn |-> "fetchWithRetry", layer |-> l, retries |-> RETRY_COUNT,
       baseDelay |-> RETRY_DELAY] : l \in {"limeplay", "aceternity"} }

RetryInit ==
    /\ NoScriptRuns
    /\ arg \in RetryCalls
    /\ ret = NoCall
    /\ frame = [ at |-> "try", attempt |-> 0, lastError |-> JNull,
                 tries |-> <<>>, sleeps |-> <<>> ]

\* a successful attempt whose value is dropped while retries are left
AttemptSucceedsRetriesAnyway ==
    /\ arg.fn = "fetchWithRetry" /\ frame.at = "try"
    /\ frame.attempt <= arg.retries
    /\ \E body \in DetailResponses("a") :
         LET tried == Append(frame.tries, [attempt |-> frame.attempt,
                                           outcome |-> "ok", value |-> body])
         IN IF RetriesLeft(frame.attempt, arg.retries)
            THEN frame' = [frame EXCEPT !.at = "sleep", !.tries = tried]
                   /\ ret' = ret
            ELSE frame' = [frame EXCEPT !.at = "done", !.tries = tried]
                   /\ ret' = Returned(body)
    /\ UNCHANGED << mainVars, arg >>

\* fetch.ts:52-58: the attempt succeeds and its decoded body is returned
AttemptSucceeds ==
    /\ arg.fn = "fetchWithRetry" /\ frame.at = "try"
    /\ frame.attempt <= arg.retries
    /\ \E body \in DetailResponses("a") :
         /\ ret' = Returned(body)
         /\ frame' = [frame EXCEPT !.at = "done",
                                   !.tries = Append(@, [attempt |-> frame.attempt,
                                                        outcome |-> "ok",
                                                        value |-> body])]
    /\ UNCHANGED << mainVars, arg >>

\* fetch.ts:59-71: the attempt throws; the error becomes lastError; either a
\* sleep is awaited, or the loop ends and lastError is thrown
AttemptFails ==
    /\ arg.fn = "fetchWithRetry" /\ frame.at = "try"
    /\ frame.attempt <= arg.retries
    /\ \E e \in AttemptErrors(frame.attempt) :
         LET tried == Append(frame.tries, [attempt |-> frame.attempt,
                                           outcome |-> "error", error |-> e])
         IN IF RetriesLeft(frame.attempt, arg.retries)
            THEN /\ frame' = [frame EXCEPT !.at = "sleep", !.lastError = e,
                                           !.tries = tried]
                 /\ ret' = ret
            ELSE /\ frame' = [frame EXCEPT !.at = "done", !.lastError = e,
                                           !.attempt = @ + 1, !.tries = tried]
                 /\ ret' = Thrown(e)
    /\ UNCHANGED << mainVars, arg >>

\* fetch.ts:63-65: the sleep ends and the loop goes to its next attempt
Sleeps ==
    /\ arg.fn = "fetchWithRetry" /\ frame.at = "sleep"
    /\ frame' = [frame EXCEPT !.at = "try", !.attempt = @ + 1,
                              !.sleeps = Append(@, [before |-> frame.attempt + 1,
                                                    ms |-> DelayOf(arg, frame.attempt)])]
    /\ UNCHANGED << mainVars, arg, ret >>

RetryNext == AttemptSucceeds \/ AttemptFails \/ Sleeps

RetrySpec == RetryInit /\ [][RetryNext]_vars


(***************************************************************************)
(* validateRegistryItem, applied to decoded JSON values: scalars, arrays,  *)
(* and objects whose fields are each absent, of a wrong kind, or right.    *)
(***************************************************************************)
\* longest files array
MaxFiles == 2

\* the object with the fields of f that are not undefined
ObjectOf(f) == JObj([key \in { x \in DOMAIN f : f[x] # Undefined } |-> f[key]])

GoodFile == ObjectOf([path |-> JStr("ui/a.tsx"), type |-> JStr("registry:ui")])

\* elements of a files array: null, a file, a file without path, a file
\* whose type is not a string
FileElements ==
    { JNull, GoodFile,
      ObjectOf([path |-> Undefined, type |-> JStr("registry:ui")]),
      ObjectOf([path |-> JStr("ui/a.tsx"), type |-> JNum(1)]) }

NameFields == { Undefined, JStr("x"), JStr(""), JNum(1) }
TypeFields == { Undefined, JStr("registry:component"), JStr("bogus"), JNum(1) }
FilesFields ==
    { Undefined, JNull, JStr("ui/a.tsx") }
      \cup { JArr(a) : a \in SeqsUpTo(FileElements, MaxFiles) }
DepsFields == { Undefined, JStr("react"), JArr(<< JStr("react") >>), JArr(<< JNum(1) >>) }
SchemaFields ==
    { Undefined, JStr(REGISTRY_ITEM_SCHEMA), JStr("https://example.com/s.json"),
      JNum(1) }

\* the type strings upstream items carry: the kinds of the shadcn schema,
\* and one that is none of them
TypeNames ==
    { "registry:style", "registry:lib", "registry:example", "registry:block",
      "registry:component", "registry:ui", "registry:hook", "registry:theme",
      "registry:page", "bogus" }

ValidatorInputs ==
    { JNull, JBool(TRUE), JNum(1), JStr("x"), JArr(<< >>), JArr(<< JStr("x") >>) }
    \cup
    { ObjectOf([name |-> JStr("x"), type |-> JStr(t)]) : t \in TypeNames }
    \cup
    { ObjectOf([ name |-> n, type |-> t, files |-> f, dependencies |-> d,
                 registryDependencies |-> r ]
               @@ ("$schema" :> sc)) :
        n \in NameFields, t \in TypeFields, f \in FilesFields,
        d \in DepsFields, r \in DepsFields, sc \in SchemaFields }

ValidateInit ==
    /\ NoScriptRuns
    /\ \E v \in ValidatorInputs : arg = [fn |-> "validateRegistryItem", item |-> v]
    /\ ret = NoCall
    /\ frame = NoCall

\* fetch.ts:169-243
CallValidateRegistryItem ==
    /\ arg.fn = "validateRegistryItem" /\ ret = NoCall
    /\ LET validation == validateRegistryItem(arg.item)
       IN ret' = IF validation.threw THEN Thrown(validation.error)
                 ELSE Returned(validation)
    /\ UNCHANGED << mainVars, arg, frame >>

ValidateNext == CallValidateRegistryItem

ValidateSpec == ValidateInit /\ [][ValidateNext]_vars


(***************************************************************************)
(* scripts/sync-all.ts: main() over the sync scripts of the sources.  The  *)
(* script of a source either exports sync and runs nothing when imported   *)
(* (the template, behind import.meta.main), or exports nothing and calls   *)
(* its main() when the module is loaded (limeplay, aceternity).  A         *)
(* pipeline is one run of a sync() or a main(): PipelineSteps fetches and  *)
(* writes one after the other, after which it resolves, unless it fails;   *)
(* a step that fails for one item only is noted and the pipeline goes on.  *)
(* arg holds registryNames, frame the loop and the pipelines of each       *)
(* source, ret what main() came to.                                        *)
(***************************************************************************)
\* most sources, and the fetches and writes of one pipeline
MaxSources == 2
PipelineSteps == 2

ScriptKinds == {"exportsSync", "mainOnLoad"}

\* the pipelines a source can have: main() started by the import, sync()
\* called by sync-all, the script run in the spawned subprocess
Roles == {"load", "sync", "proc"}
InProcess == {"load", "sync"}

NotStarted == [status |-> "none", steps |-> 0, itemFailed |-> FALSE]
\* a called pipeline runs up to its first await: its first fetch is issued
Started == [status |-> "running", steps |-> 1, itemFailed |-> FALSE]

Settled(p) == p.status \in {"done", "failed"}

\* process.exit: what runs in the process of sync-all is cut off
ProcessExit(f) ==
    [f EXCEPT !.at = "exited",
              !.pipes = [i \in DOMAIN @ |->
                           [r \in Roles |->
                              IF r \in InProcess /\ @[i][r].status = "running"
                              THEN [@[i][r] EXCEPT !.status = "killed"]
                              ELSE @[i][r]]]]

SyncAllInit ==
    /\ NoScriptRuns
    /\ arg \in { [fn |-> "syncAll", registryNames |-> names] :
                   names \in SeqsUpTo(ScriptKinds, MaxSources) }
    /\ ret = NoCall
    /\ frame = [ at |-> "loop", i |-> 1,
                 pipes |-> [i \in 1..Len(arg.registryNames) |->
                              [r \in Roles |-> NotStarted]],
                 results |-> <<>> ]

\* sync-all.ts:44-49: no source is found
NoRegistries ==
    /\ arg.fn = "syncAll" /\ frame.at = "loop"
    /\ arg.registryNames = <<>>
    /\ frame' = ProcessExit(frame)
    /\ ret' = Returned([exitCode |-> 1])
    /\ UNCHANGED << mainVars, arg >>

\* sync-all.ts:61-66: the module is imported, it exports sync, sync is called
ImportAndCallSync ==
    /\ arg.fn = "syncAll" /\ frame.at = "loop"
    /\ frame.i <= Len(arg.registryNames)
    /\ arg.registryNames[frame.i] = "exportsSync"
    /\ frame' = [frame EXCEPT !.at = "awaitSync",
                              !.pipes[frame.i]["sync"] = Started]
    /\ UNCHANGED << mainVars, arg, ret >>

\* sync-all.ts:61-75: importing the module calls its main(), which is not
\* awaited; the module exports no sync, so the script is spawned as well
ImportAndSpawn ==
    /\ arg.fn = "syncAll" /\ frame.at = "loop"
    /\ frame.i <= Len(arg.registryNames)
    /\ arg.registryNames[frame.i] = "mainOnLoad"
    /\ frame' = [frame EXCEPT !.at = "awaitExit",
                              !.pipes[frame.i]["load"] = Started,
                              !.pipes[frame.i]["proc"] = Started]
    /\ UNCHANGED << mainVars, arg, ret >>

\* the process a pipeline runs in is alive
Alive(r) == r \in InProcess => frame.at # "exited"

\* a pipeline's awaited fetch or write completes, or fails for one item, which
\* the pipeline notes before going on, and the next step is issued
PipelineStep(i, r) ==
    /\ arg.fn = "syncAll" /\ Alive(r)
    /\ frame.pipes[i][r].status = "running"
    /\ frame.pipes[i][r].steps < PipelineSteps
    /\ \E ok \in BOOLEAN :
         frame' = [frame EXCEPT !.pipes[i][r].steps = @ + 1,
                                !.pipes[i][r].itemFailed = @ \/ ~ok]
    /\ UNCHANGED << mainVars, arg, ret >>

\* a pipeline's last step completes: sync() or main() resolves
PipelineResolves(i, r) ==
    /\ arg.fn = "syncAll" /\ Alive(r)
    /\ frame.pipes[i][r].status = "running"
    /\ frame.pipes[i][r].steps = PipelineSteps
    /\ frame' = [frame EXCEPT !.pipes[i][r].status = "done"]
    /\ UNCHANGED << mainVars, arg, ret >>

\* a pipeline fails: sync() rejects; main() catches and calls process.exit(1),
\* which ends the subprocess, or sync-all itself when main() ran on load
PipelineFails(i, r) ==
    /\ arg.fn = "syncAll" /\ Alive(r)
    /\ frame.pipes[i][r].status = "running"
    /\ LET f == [frame EXCEPT !.pipes[i][r].status = "failed"]
       IN IF r = "load"
          THEN frame' = ProcessExit(f) /\ ret' = Returned([exitCode |-> 1])
          ELSE frame' = f /\ ret' = ret
    /\ UNCHANGED << mainVars, arg >>

\* sync-all.ts:66-68, 86-90: the awaited sync() settles; the loop goes on
SyncSettles ==
    /\ arg.fn = "syncAll" /\ frame.at = "awaitSync"
    /\ Settled(frame.pipes[frame.i]["sync"])
    /\ frame' = [frame EXCEPT !.at = "loop", !.i = @ + 1,
                   !.results = Append(@, frame.pipes[frame.i]["sync"].status = "done")]
    /\ UNCHANGED << mainVars, arg, ret >>

\* sync-all.ts:77-90: the subprocess exits; the loop goes on
ProcExited ==
    /\ arg.fn = "syncAll" /\ frame.at = "awaitExit"
    /\ Settled(frame.pipes[frame.i]["proc"])
    /\ frame' = [frame EXCEPT !.at = "loop", !.i = @ + 1,
                   !.results = Append(@, frame.pipes[frame.i]["proc"].status = "done")]
    /\ UNCHANGED << mainVars, arg, ret >>

\* sync-all.ts:93-116: the summary; process.exit(1) if a source failed
PrintSummary ==
    /\ arg.fn = "syncAll" /\ frame.at = "loop"
    /\ arg.registryNames # <<>>
    /\ frame.i > Len(arg.registryNames)
    /\ IF \E k \in 1..Len(frame.results) : ~frame.results[k]
       THEN frame' = ProcessExit(frame) /\ ret' = Returned([exitCode |-> 1])
       ELSE frame' = [frame EXCEPT !.at = "returned"]
              /\ ret' = Returned([exitCode |-> 0])
    /\ UNCHANGED << mainVars, arg >>

SyncAllNext ==
    \/ NoRegistries
    \/ ImportAndCallSync
    \/ ImportAndSpawn
    \/ \E i \in 1..Len(arg.registryNames), r \in Roles : PipelineStep(i, r)
    \/ \E i \in 1..Len(arg.registryNames), r \in Roles : PipelineResolves(i, r)
    \/ \E i \in 1..Len(arg.registryNames), r \in Roles : PipelineFails(i, r)
    \/ SyncSettles
    \/ ProcExited
    \/ PrintSummary

SyncAllSpec == SyncAllInit /\ [][SyncAllNext]_vars


(***************************************************************************)
(* The verify commands: scripts/verify-all.ts over the output directories  *)
(* of all sources, and a source's own scripts/verify.ts over its own.      *)
(* arg holds the command and the output directories as they are found,     *)
(* frame the loop, the VerifyResult and the directories as they are left,  *)
(* ret the exit status.                                                    *)
(***************************************************************************)
\* most sources verify-all goes over
MaxVerified == 2

\* the *.json files of an output directory, in readdir order
VerifyStems == << "a", "b", "index", "registry" >>

\* a file whose text is not JSON
NotJson == [raw |-> "{"]

\* JSON.parse(content)
JsonParse(f) ==
    IF "text" \in DOMAIN f THEN [ok |-> TRUE, value |-> f.text]
    ELSE [ok |-> FALSE, value |-> Undefined]

\* what an item file can hold: a canonical item, an item without $schema, an
\* item of an unknown type, an item with a null file, text that is not JSON
ItemFileTexts(n) ==
    { JsonStringify(JObj(("$schema" :> JStr(REGISTRY_ITEM_SCHEMA))
                           @@ [name |-> JStr(n), type |-> JStr("registry:ui")])),
      JsonStringify(Item(n, "registry:component")),
      JsonStringify(Item(n, "bogus")),
      JsonStringify(JObj([name |-> JStr(n), type |-> JStr("registry:ui"),
                          files |-> JArr(<< JNull >>)])),
      NotJson }

AggregateText == [text |-> [syncedAt |-> Earlier, itemCount |-> 0, items |-> << >>]]

\* the output directories verify can find
OutputDirs ==
    { [dirExists |-> FALSE, files |-> [s \in Range(VerifyStems) |-> NoFile]] }
    \cup
    { [dirExists |-> TRUE,
       files |-> [s \in Range(VerifyStems) |->
                    IF s = "a" THEN fa ELSE IF s = "b" THEN fb ELSE fi]] :
        fa \in ItemFileTexts("a") \cup {NoFile},
        fb \in ItemFileTexts("b") \cup {NoFile},
        fi \in {NoFile, AggregateText} }

\* the directories verify-all goes over hold at most one item file, a.json;
\* directories with two item files are verified by a source's own verify.ts
SourceDirs == { d \in OutputDirs : d.files["b"] = NoFile }

\* a verify that fails on warnings as well
ExitsNonZeroOnWarnings(invalid) == Len(invalid) > 0 \/ frame.warnings # << >>

\* verify-all.ts:139, verify.ts:79: an invalid file makes the exit status 1
ExitsNonZero(invalid) == Len(invalid) > 0

\* verify-all.ts:44-49, verify.ts:39-41: the item files of a directory
JsonFiles(dir) ==
    SelectSeq(VerifyStems, LAMBDA s : /\ dir.files[s] # NoFile
                                      /\ s # "index" /\ s # "registry")

VerifyInit ==
    /\ NoScriptRuns
    /\ arg \in { [fn |-> "verify", command |-> "verify", dirs |-> << d >>] :
                   d \in OutputDirs }
               \cup
               { [fn |-> "verify", command |-> "verify-all", dirs |-> ds] :
                   ds \in SeqsUpTo(SourceDirs, MaxVerified) }
    /\ ret = NoCall
    /\ frame = [ at |-> "list", k |-> 1, jsonFiles |-> << >>, pos |-> 1,
                 valid |-> << >>, invalid |-> << >>, warnings |-> << >>,
                 unreadable |-> {}, dirs |-> arg.dirs ]

\* verify-all.ts:93-96: no source is found
VerifyNoRegistries ==
    /\ arg.fn = "verify" /\ frame.at = "list"
    /\ arg.dirs = << >>
    /\ frame' = [frame EXCEPT !.at = "done"]
    /\ ret' = Returned([exitCode |-> 0])
    /\ UNCHANGED << mainVars, arg >>

\* verify.ts:33-46: no output directory, or no item file in it
VerifyNothingToCheck ==
    /\ arg.fn = "verify" /\ frame.at = "list"
    /\ arg.command = "verify"
    /\ ~frame.dirs[1].dirExists \/ JsonFiles(frame.dirs[1]) = << >>
    /\ frame' = [frame EXCEPT !.at = "done"]
    /\ ret' = Returned([exitCode |-> 0])
    /\ UNCHANGED << mainVars, arg >>

\* verify-all.ts:36-49, verify.ts:38-50: the directory of source k is listed
VerifyListsOutput ==
    /\ arg.fn = "verify" /\ frame.at = "list"
    /\ frame.k <= Len(arg.dirs)
    /\ arg.command = "verify" =>
         frame.dirs[1].dirExists /\ JsonFiles(frame.dirs[1]) # << >>
    /\ frame' = [frame EXCEPT
                   !.at = "files", !.pos = 1,
                   !.jsonFiles = IF frame.dirs[frame.k].dirExists
                                 THEN JsonFiles(frame.dirs[frame.k]) ELSE << >>]
    /\ UNCHANGED << mainVars, arg, ret >>

\* verify-all.ts:51-78, verify.ts:52-74: a file is read, parsed and validated;
\* text that is not JSON and an error of the validator are caught
VerifyChecksFile ==
    /\ arg.fn = "verify" /\ frame.at = "files"
    /\ frame.pos <= Len(frame.jsonFiles)
    /\ LET file == [source |-> frame.k, file |-> frame.jsonFiles[frame.pos]]
           data == JsonParse(frame.dirs[frame.k].files[file.file])
           validation == validateRegistryItem(data.value)
       IN frame' =
            IF data.ok /\ ~validation.threw /\ validation.valid
            THEN [frame EXCEPT !.pos = @ + 1,
                               !.valid = Append(@, file),
                               !.warnings = @ \o validation.warnings]
            ELSE [frame EXCEPT !.pos = @ + 1, !.invalid = Append(@, file)]
    /\ UNCHANGED << mainVars, arg, ret >>

\* verify-all.ts:55, 72-77: readFile fails; the file is reported as invalid
VerifyReadFails ==
    /\ arg.fn = "verify" /\ frame.at = "files"
    /\ frame.pos <= Len(frame.jsonFiles)
    /\ LET file == [source |-> frame.k, file |-> frame.jsonFiles[frame.pos]]
       IN frame' = [frame EXCEPT !.pos = @ + 1,
                                 !.invalid = Append(@, file),
                                 !.unreadable = @ \cup {file}]
    /\ UNCHANGED << mainVars, arg, ret >>

\* verify-all.ts:108-130: the loop goes on to the next source
VerifyNextSource ==
    /\ arg.fn = "verify" /\ frame.at = "files"
    /\ frame.pos > Len(frame.jsonFiles)
    /\ frame' = [frame EXCEPT !.k = @ + 1,
                              !.at = IF frame.k < Len(arg.dirs) THEN "list"
                                     ELSE "report"]
    /\ UNCHANGED << mainVars, arg, ret >>

\* verify-all.ts:132-148, verify.ts:76-87: the summary and the exit status
VerifyReports ==
    /\ arg.fn = "verify" /\ frame.at = "report"
    /\ frame' = [frame EXCEPT !.at = "done"]
    /\ ret' = Returned([exitCode |-> IF ExitsNonZero(frame.invalid) THEN 1 ELSE 0])
    /\ UNCHANGED << mainVars, arg >>

VerifyNext ==
    \/ VerifyNoRegistries
    \/ VerifyNothingToCheck
    \/ VerifyListsOutput
    \/ VerifyChecksFile
    \/ VerifyReadFails
    \/ VerifyNextSource
    \/ VerifyReports

VerifySpec == VerifyInit /\ [][VerifyNext]_vars


(***************************************************************************)
(* Properties.                                                             *)
(***************************************************************************)
\* the file holds an aggregate index (index.json / registry.json content)
IsAggregate(f) == f # NoFile /\ "syncedAt" \in DOMAIN f.text

\* the for-loop of sync over the working set has run to its end
LoopOver ==
    /\ script = "generic"
    /\ pc \in {"Downloading", "GeneratingIndex", "Done", "Failed"}
    /\ failedAt \notin {"FetchingIndex", "CreatingDir"}
    /\ pos > Len(filtered)

\* the error message sync records for a logged entry that did not succeed
EntryError(e) ==
    IF e.fetch = "failed" THEN NetworkError
    ELSE IF ~e.valid THEN validateRegistryItem(e.detail).error
    ELSE WriteError

Succeeded(e) == e.write = "ok"
NotSucceeded(e) == e.write # "ok"

\* C1: in the generic sync every write of an item file, attempted or done,
\* comes after validateRegistryItem returned valid for the item written; no
\* entry whose item failed validation is written, and every item file this
\* run changed holds an item that passes validation.
C1_WrittenOnlyAfterValidation ==
    script = "generic" =>
      /\ pc = "Persisting" => validateRegistryItem(transformed).valid
      /\ \A i \in 1..Len(log) :
           /\ log[i].write # "none" =>
                log[i].fetch = "ok" /\ validateRegistryItem(log[i].detail).valid
           /\ ~validateRegistryItem(log[i].detail).valid => log[i].write = "none"
      /\ \A n \in Names :
           (files[n] # diskAtStart.files[n] /\ ~IsAggregate(files[n])) =>
             validateRegistryItem(files[n].text).valid

C1_Witness ==
    /\ script = "generic" /\ pc = "Done" /\ ~opts.dryRun
    /\ \E i \in 1..Len(log) : log[i].write = "ok" /\ files[log[i].name] # NoFile
    /\ \E j \in 1..Len(log) : log[j].fetch = "ok" /\ ~log[j].valid

C3_IndexFetchFailureWritesNothing ==
    failedAt = "FetchingIndex" =>
      /\ pc = "Failed"
      /\ Disk = diskAtStart
      /\ requests = << IndexRequest >>
      /\ log = <<>>

C3_Witness ==
    /\ script = "generic" /\ pc = "Failed" /\ failedAt = "FetchingIndex"
    /\ ~opts.dryRun
    /\ ~dirExists

\* C4: a dry run of the generic sync that returns has every working-set name
\* in success, in working-set order, an empty failed list, stats.synced equal
\* to the size of the working set and stats.failed equal to 0.
C4_DryRunCountsWorkingSet ==
    (script = "generic" /\ opts.dryRun /\ pc = "Done") =>
      /\ result.success = SeqNames(filtered)
      /\ result.failed = <<>>
      /\ result.stats.synced = Len(filtered)
      /\ result.stats.failed = 0

C4_Witness ==
    /\ script = "generic" /\ opts.dryRun /\ pc = "Done"
    /\ Len(filtered) = 2 /\ Len(items) = 3
    /\ result.stats.synced = 2

\* C5: in a dry run of any of the three scripts the output directory and
\* every file under it stay, at every step, as they were when the run started.
C5_DryRunLeavesDiskUnchanged ==
    opts.dryRun => Disk = diskAtStart

C5_Witness ==
    /\ script = "limeplay" /\ opts.dryRun /\ pc = "Done"
    /\ Len(results) >= 1
    /\ diskAtStart # EmptyDisk

\* C6 (as claimed): in a dry run of any of the three scripts the index fetch
\* is the only request made.
C6_DryRunRequestsIndexOnly ==
    opts.dryRun => \A i \in 1..Len(requests) : requests[i] = IndexRequest

\* C7 (as claimed): when the generic sync has written the aggregate index,
\* its items are exactly the entries that succeeded in this run, one summary
\* per succeeded entry, and itemCount is the length of that list.
C7_IndexListsExactlySucceeded ==
    (script = "generic" /\ pc = "Done" /\ GeneratesIndex(opts, config)) =>
      LET index == files["index"].text IN
      /\ SeqNames(index.items) = result.success
      /\ index.itemCount = Len(index.items)

\* C8 (as claimed): when a run has ended, index.json was changed by it iff
\* registry.json was, and if both files exist their contents are equal.
C8_IndexFilesWrittenTogether ==
    pc \in {"Done", "Failed"} =>
      /\ (files["index"] # diskAtStart.files["index"])
           <=> (files["registry"] # diskAtStart.files["registry"])
      /\ (files["index"] # NoFile /\ files["registry"] # NoFile) =>
           files["index"] = files["registry"]

\* C9 (as claimed): the generic sync raises only from the index-fetch step.
C9_FailedOnlyFromIndexFetch ==
    (script = "generic" /\ pc = "Failed") => failedAt = "FetchingIndex"

\* C10 (as claimed): in every script a failed write of an item file never
\* ends the run, and the entry is recorded in failed with the write error.
C10_WriteFailureIsolated ==
    /\ failedAt # "Persisting"
    /\ \A i \in 1..Len(log) :
         log[i].write = "failed" =>
           /\ \E j \in 1..Len(result.failed) :
                result.failed[j] = [name |-> log[i].name, error |-> WriteError]
           /\ (pc = "Done" => Len(log) = Len(filtered))

\* C11 (as claimed): the outcome the generic sync returns has stats.total
\* equal to the number of index entries after deduplication by name,
\* stats.synced, stats.failed and stats.skipped equal to the lengths of
\* success, failed and skipped, synced + failed equal to the size of the
\* working set and at most total.
C11_StatsMatchOutcome ==
    (script = "generic" /\ pc = "Done") =>
      /\ result.stats.total = Len(deduplicateItems(items))
      /\ result.stats.synced = Len(result.success)
      /\ result.stats.failed = Len(result.failed)
      /\ result.stats.skipped = Len(result.skipped)
      /\ result.stats.synced + result.stats.failed = Len(filtered)
      /\ result.stats.synced + result.stats.failed <= result.stats.total

\* the requests of the run for the detail of the item named n
DetailFetches(n) == SelectSeq(requests, LAMBDA r : r = DetailRequest(n))

\* the logged writes of the item file of n that were done
WritesOf(n) == SelectSeq(log, LAMBDA e : e.name = n /\ e.write = "ok")

Distinct(s) == \A i, j \in 1..Len(s) : i # j => s[i] # s[j]

\* C13 (as claimed): in every script the index entries a run works on have
\* pairwise distinct names, no name is detail-fetched more than once, no item
\* file is written more than once, and no name occurs twice in success, in
\* failed taken together with success, or in the fetched components.
C13_EveryNameOnce ==
    /\ Distinct(SeqNames(filtered))
    /\ \A n \in Names : Len(DetailFetches(n)) <= 1 /\ Len(WritesOf(n)) <= 1
    /\ Distinct(result.success \o SeqNames(result.failed))
    /\ Distinct(results)

\* the working set the filtering rule describes: the entries, in index
\* order, whose name is in only (if given), in include (if non-empty) and
\* not in exclude
WorkingSet(its, only, include, exclude) ==
    SelectSeq(its, LAMBDA i : /\ only # {} => i.name \in only
                              /\ include # {} => i.name \in include
                              /\ i.name \notin exclude)

\* C12 (as claimed): the working set a script computes from the index is
\* exactly the entries, in index order, whose name is in only (if given), in
\* the source's include list (if non-empty) and not in its exclude list.
C12_FilterComposition ==
    (arg.fn = "filter" /\ ret # NoCall) =>
      ret.value = WorkingSet(arg.items, arg.only, arg.include, arg.exclude)

\* the positions of a list that hold the first entry of their name
FirstPositions(its) ==
    { j \in 1..Len(its) : \A k \in 1..(j - 1) : its[k].name # its[j].name }

\* the entries at the first positions, in the order of the list
FirstOccurrences(its) ==
    LET P == FirstPositions(its)
        nth(i) == CHOOSE j \in P : Cardinality({ k \in P : k < j }) = i - 1
    IN [i \in 1..Cardinality(P) |-> its[nth(i)]]

\* C14: for every list of index entries, deduplicateItems returns a list with
\* pairwise distinct names that holds, for every name of the input, exactly
\* the first entry of that name, in the order of the first occurrences; and
\* deduplicating the returned list returns that list again.
C14_DedupFirstOccurrence ==
    (arg.fn = "deduplicateItems" /\ ret # NoCall) =>
      /\ Distinct(SeqNames(ret.value))
      /\ Range(SeqNames(ret.value)) = Range(SeqNames(arg.items))
      /\ ret.value = FirstOccurrences(arg.items)
      /\ deduplicateItems(ret.value) = ret.value
      /\ arg.again => ret.value = arg.items

C14_Witness ==
    /\ arg.fn = "deduplicateItems" /\ ret # NoCall /\ ~arg.again
    /\ arg.items = << [name |-> "a", type |-> "registry:component"],
                      [name |-> "b", type |-> "registry:ui"],
                      [name |-> "a", type |-> "registry:ui"] >>
    /\ ret.value = << [name |-> "a", type |-> "registry:component"],
                      [name |-> "b", type |-> "registry:ui"] >>

\* C15 (as claimed): in every script a run of a source whose config disables
\* generateIndex, and a dry run, write no aggregate index: registry.json
\* stays as it was, and index.json changes at most into an item file.
C15_IndexOnlyWhenEnabled ==
    (opts.dryRun \/ ~config.generateIndex) =>
      /\ files["registry"] = diskAtStart.files["registry"]
      /\ files["index"] # diskAtStart.files["index"] => ~IsAggregate(files["index"])

\* the run was not a dry run and ended with its aggregate index generated:
\* sync returned with generateIndex enabled, main printed "Sync complete"
IndexGenerated ==
    /\ pc = "Done" /\ ~opts.dryRun
    /\ script = "generic" => GeneratesIndex(opts, config)
    /\ script # "generic" => Len(results) > 0

\* the names of the entries whose item file this run wrote
SucceededNames == { log[i].name : i \in { j \in 1..Len(log) : log[j].write = "ok" } }

AllFailed == \A i \in 1..Len(frame.tries) : frame.tries[i].outcome = "error"

\* C17: the shared fetchWithRetry called with retries = R never makes more
\* than R + 1 attempts; when every attempt fails it makes exactly R + 1 and
\* then throws, and what it throws is the error of attempt R, the last one,
\* whatever kind of error each attempt met; it throws in no other case.
C17_ExhaustedRetries ==
    (arg.fn = "fetchWithRetry" /\ arg.layer = "shared") =>
      /\ Len(frame.tries) <= arg.retries + 1
      /\ \A i \in 1..Len(frame.tries) : frame.tries[i].attempt = i - 1
      /\ (AllFailed /\ frame.at = "done") =>
           /\ Len(frame.tries) = arg.retries + 1
           /\ ret = Thrown(frame.tries[arg.retries + 1].error)
      /\ (AllFailed /\ Len(frame.tries) = arg.retries + 1) => frame.at = "done"
      /\ ret.fn = "thrown" =>
           /\ AllFailed
           /\ Len(frame.tries) = arg.retries + 1
           /\ ret.error.attempt = arg.retries
           /\ ret.error = frame.lastError

C17_Witness ==
    /\ arg.fn = "fetchWithRetry" /\ arg.layer = "shared" /\ arg.retries = 2
    /\ ret.fn = "thrown"
    /\ Len(frame.tries) = 3
    /\ frame.tries[1].error.msg = "fetch failed"
    /\ frame.tries[2].error.msg = "HTTP 500: Internal Server Error"
    /\ frame.tries[3].error.msg = "SyntaxError: Unexpected token"
    /\ ret.error = [msg |-> "SyntaxError: Unexpected token", attempt |-> 2]

RECURSIVE TotalMs(_)
TotalMs(sl) == IF sl = <<>> THEN 0 ELSE Head(sl).ms + TotalMs(Tail(sl))

\* C18: in the shared fetchWithRetry attempt 0 starts with no sleep before
\* it, and attempt k >= 1 starts after exactly k sleeps, the i-th of which
\* came right before attempt i and lasted baseDelay * 2^(i-1) ms; no sleep
\* follows the last attempt; with retries = 2 and baseDelay = 100 a
\* retrieval that fails throughout has slept 100 then 200, 300 ms in all.
C18_ExponentialBackoff ==
    (arg.fn = "fetchWithRetry" /\ arg.layer = "shared") =>
      /\ \A i \in 1..Len(frame.sleeps) :
           /\ frame.sleeps[i].before = i
           /\ frame.sleeps[i].ms = arg.baseDelay * 2^(i - 1)
      /\ frame.at = "try" =>
           Len(frame.sleeps) = frame.attempt /\ Len(frame.tries) = frame.attempt
      /\ frame.at \in {"sleep", "done"} => Len(frame.sleeps) = Len(frame.tries) - 1
      /\ ret.fn = "thrown" => Len(frame.sleeps) = arg.retries
      /\ (ret.fn = "thrown" /\ arg.retries = 2 /\ arg.baseDelay = 100) =>
           /\ [i \in 1..2 |-> frame.sleeps[i].ms] = << 100, 200 >>
           /\ TotalMs(frame.sleeps) = 300

C18_Witness ==
    /\ arg.fn = "fetchWithRetry" /\ arg.layer = "shared"
    /\ arg.retries = 2 /\ arg.baseDelay = 100
    /\ ret.fn = "thrown"
    /\ frame.sleeps = << [before |-> 1, ms |-> 100], [before |-> 2, ms |-> 200] >>

\* C19 (as claimed): the fetchWithRetry of the limeplay and aceternity
\* scripts sleeps RETRY_DELAY * 2^(k-1) ms before attempt k >= 1.
C19_LocalBackoffExponential ==
    (arg.fn = "fetchWithRetry" /\ arg.layer \in {"limeplay", "aceternity"}) =>
      \A k \in 1..Len(frame.sleeps) :
        /\ frame.sleeps[k].before = k
        /\ frame.sleeps[k].ms = RETRY_DELAY * 2^(k - 1)

\* x is a non-empty string
IsFilledString(x) == TypeOf(x) = "string" /\ ~Falsy(x)

\* a files element that lacks a string path or a string type
LacksPathOrType(e) ==
    \/ ReadThrows(e)
    \/ ~IsFilledString(Get(e, "path"))
    \/ ~IsFilledString(Get(e, "type"))

\* the item passes the rules that come before the files rule
ReachesFilesRule(v) ==
    /\ TypeOf(v) = "object" /\ ~Falsy(v)
    /\ IsFilledString(Get(v, "name"))
    /\ IsFilledString(Get(v, "type"))
    /\ Get(v, "type").s \in VALID_ITEM_TYPES

\* C20 (as claimed): for every decoded JSON value validateRegistryItem
\* returns, and never raises: either valid with no error, or invalid with a
\* non-empty error; and for a value that reaches the files rule with a files
\* array holding an element that lacks a string path or a string type, the
\* error is positional and names the index of the first such element.
C20_ValidatorTotal ==
    (arg.fn = "validateRegistryItem" /\ ret # NoCall) =>
      LET r == ret.value
          v == arg.item
          fs == Get(v, "files")
      IN /\ ret.fn = "returned"
         /\ r.valid => r.error = NoError
         /\ ~r.valid => r.error.msg # ""
         /\ (ReachesFilesRule(v) /\ IsArray(fs)) =>
              \A i \in 1..Len(fs.a) :
                (/\ LacksPathOrType(fs.a[i])
                 /\ \A j \in 1..(i - 1) : ~LacksPathOrType(fs.a[j]))
                => /\ ~r.valid
                   /\ "index" \in DOMAIN r.error
                   /\ r.error.index = i - 1

\* the rules of the validator, each taken on its own
NotAnObject(v) == Falsy(v) \/ TypeOf(v) # "object"
NameMissing(v) == ~IsFilledString(Get(v, "name"))
TypeMissing(v) == ~IsFilledString(Get(v, "type"))
TypeUnknown(v) ==
    /\ IsFilledString(Get(v, "type"))
    /\ Get(v, "type").s \notin
         { "registry:style", "registry:lib", "registry:example",
           "registry:block", "registry:component", "registry:ui",
           "registry:hook", "registry:theme", "registry:page" }
FilesBad(v) ==
    LET fs == Get(v, "files")
    IN fs # Undefined /\ (IsArray(fs) => \E i \in 1..Len(fs.a) : LacksPathOrType(fs.a[i]))
ListBad(v, f) ==
    LET l == Get(v, f)
    IN l # Undefined /\ (IsArray(l) => \E i \in 1..Len(l.a) : TypeOf(l.a[i]) # "string")

\* the error of the files rule: not an array, or the first bad element
FilesError(fs) ==
    IF ~IsArray(fs) THEN Err("files must be an array")
    ELSE LET i == CHOOSE j \in 1..Len(fs.a) :
                    /\ LacksPathOrType(fs.a[j])
                    /\ \A h \in 1..(j - 1) : ~LacksPathOrType(fs.a[h])
         IN IF ~IsFilledString(Get(fs.a[i], "path"))
            THEN ErrFile(i - 1, "files[i]: missing path")
            ELSE ErrFile(i - 1, "files[i]: missing type")

ListError(l, f) ==
    IF ~IsArray(l) THEN Err(IF f = "dependencies"
                            THEN "dependencies must be an array"
                            ELSE "registryDependencies must be an array")
    ELSE Err(IF f = "dependencies"
             THEN "dependencies must be string array"
             ELSE "registryDependencies must be string array")

\* the error of the earliest rule the value violates, NoError if it
\* violates none
EarliestError(v) ==
    IF NotAnObject(v) THEN Err("Item must be an object")
    ELSE IF NameMissing(v) THEN Err("Missing or invalid name field")
    ELSE IF TypeMissing(v) THEN Err("Missing or invalid type field")
    ELSE IF TypeUnknown(v) THEN ErrType(Get(v, "type").s)
    ELSE IF FilesBad(v) THEN FilesError(Get(v, "files"))
    ELSE IF ListBad(v, "dependencies")
    THEN ListError(Get(v, "dependencies"), "dependencies")
    ELSE IF ListBad(v, "registryDependencies")
    THEN ListError(Get(v, "registryDependencies"), "registryDependencies")
    ELSE NoError

\* the files array of v holds null at the first place that lacks path or type
FirstBadFileIsNull(v) ==
    LET fs == Get(v, "files")
    IN /\ IsArray(fs)
       /\ \E i \in 1..Len(fs.a) :
            /\ fs.a[i] = JNull
            /\ \A h \in 1..(i - 1) : ~LacksPathOrType(fs.a[h])

\* C21: what validateRegistryItem returns is decided by the earliest rule
\* the value violates, in the order non-object, name, type present, type in
\* the enumeration, files, dependencies, registryDependencies: the result is
\* valid iff no rule is violated, and otherwise its error is that rule's
\* error alone; when the call raises instead, the files rule is the
\* earliest rule violated.
C21_FirstViolatedRuleWins ==
    (arg.fn = "validateRegistryItem" /\ ret # NoCall) =>
      /\ ret.fn = "returned" =>
           /\ ret.value.valid <=> EarliestError(arg.item) = NoError
           /\ ret.value.error = EarliestError(arg.item)
      /\ ret.fn = "thrown" =>
           /\ ~NotAnObject(arg.item) /\ ~NameMissing(arg.item)
           /\ ~TypeMissing(arg.item) /\ ~TypeUnknown(arg.item)
           /\ FirstBadFileIsNull(arg.item)

C21_Witness ==
    /\ arg.fn = "validateRegistryItem"
    /\ arg.item = ObjectOf([name |-> JNum(1), type |-> JStr("bogus")])
    /\ ret = Returned(Invalid(Err("Missing or invalid name field")))

\* the value with its $schema field set to sc, or removed if sc is undefined;
\* a value that is not an object has no such field
WithSchema(v, sc) ==
    IF v.k # "object" THEN v
    ELSE JObj([key \in (DOMAIN v.o \ {"$schema"})
                         \cup (IF sc = Undefined THEN {} ELSE {"$schema"}) |->
                 IF key = "$schema" THEN sc ELSE v.o[key]])

\* what a call of validateRegistryItem on v gives
Outcome(v) ==
    LET validation == validateRegistryItem(v)
    IN IF validation.threw THEN Thrown(validation.error) ELSE Returned(validation)

\* the warnings a valid result carries for the $schema field sc
WarningsFor(sc) ==
    IF Falsy(sc) THEN << [msg |-> "Missing $schema field"] >>
    ELSE IF sc = JStr("https://ui.shadcn.com/schema/registry-item.json") THEN << >>
    ELSE << [msg |-> "Non-standard $schema: ", schema |-> sc] >>

\* C22: the value validated and every value that differs from it only in
\* its $schema field get the same valid flag and the same error; a valid
\* result carries one warning for a missing or non-canonical $schema and none
\* for the canonical one, and no error ever is a $schema message.
C22_WarningsNeverChangeValid ==
    (arg.fn = "validateRegistryItem" /\ ret # NoCall) =>
      /\ \A sc \in SchemaFields :
           LET other == Outcome(WithSchema(arg.item, sc))
           IN /\ other.fn = ret.fn
              /\ ret.fn = "returned" =>
                   /\ other.value.valid = ret.value.valid
                   /\ other.value.error = ret.value.error
              /\ ret.fn = "thrown" => other.error = ret.error
      /\ ret.fn = "returned" =>
           /\ ret.value.valid =>
                ret.value.warnings = WarningsFor(Get(arg.item, "$schema"))
           /\ ret.value.error.msg \notin
                { "Missing $schema field", "Non-standard $schema: " }

C22_Witness ==
    /\ arg.fn = "validateRegistryItem" /\ ret.fn = "returned"
    /\ Get(arg.item, "$schema") = JStr("https://example.com/s.json")
    /\ ret.value.valid
    /\ Len(ret.value.warnings) = 1
    /\ Outcome(WithSchema(arg.item, Undefined)).value.valid
    /\ Outcome(WithSchema(arg.item, JStr(REGISTRY_ITEM_SCHEMA))).value.warnings = << >>

\* v is a record with a string name, a string type and no other field
NameAndTypeOnly(v) ==
    /\ v.k = "object" /\ DOMAIN v.o = {"name", "type"}
    /\ IsFilledString(v.o["name"]) /\ IsFilledString(v.o["type"])

C24_AceternityWritesValidItems ==
    script = "aceternity" =>
      /\ \A i \in 1..Len(log) :
           log[i].write = "ok" => validateRegistryItem(log[i].detail).valid
      /\ \A n \in Names :
           (files[n] # diskAtStart.files[n] /\ ~IsAggregate(files[n])) =>
             validateRegistryItem(files[n].text).valid

\* the detail fetches issued in this run, and those still awaited
DetailsIssued == Len(SelectSeq(requests, LAMBDA r : r # IndexRequest))
DetailsInFlight == DetailsIssued - completed

Processed == SelectSeq(log, LAMBDA e : e.write = "none")
CountIn(names, n) == Cardinality({ i \in 1..Len(names) : names[i] = n })
AwaitedBy(n) == Cardinality({ w \in Workers : inflight[w].name = n })
BatchResolved == pc \in {"Persisting", "GeneratingIndex", "Done"}
                   \/ (pc = "Failed" /\ failedAt # "FetchingIndex")

\* C26: in downloadComponents every working-set entry is taken from the queue
\* by exactly one worker and fetched once; a failed detail fetch is recorded
\* and the worker goes on with the queue, so no worker is idle while entries
\* are queued; and once the batch has resolved every entry is either among the
\* fetched components or, in limeplay, in the failed list, never in both.
C26_EveryEntryTakenOnce ==
    script \in {"limeplay", "aceternity"} =>
      /\ \A n \in Names :
           /\ CountIn(SeqNames(filtered), n) =
                CountIn(SeqNames(Processed), n) + AwaitedBy(n)
                  + CountIn(SeqNames(queue), n)
           /\ Len(DetailFetches(n)) = CountIn(SeqNames(Processed), n) + AwaitedBy(n)
      /\ (pc = "Downloading" /\ queue # <<>>) =>
           \A w \in Workers : inflight[w] # NoEntry
      /\ results = [i \in 1..Len(results) |->
                      SelectSeq(Processed, LAMBDA e : e.fetch = "ok")[i].detail]
      /\ Len(results) = Len(SelectSeq(Processed, LAMBDA e : e.fetch = "ok"))
      /\ script = "limeplay" =>
           failed = SeqNames(SelectSeq(Processed, LAMBDA e : e.fetch = "failed"))
      /\ BatchResolved =>
           /\ queue = <<>> /\ \A w \in Workers : inflight[w] = NoEntry
           /\ Len(Processed) = Len(filtered)
           /\ script = "limeplay" =>
                \A i \in 1..Len(filtered) :
                  (filtered[i].name \in Range(failed))
                    # (\E j \in 1..Len(results) :
                         ComponentStem(results[j]) = filtered[i].name)

C26_Witness ==
    /\ script = "limeplay" /\ BatchResolved
    /\ Len(filtered) = 2
    /\ failed = << filtered[1].name >>
    /\ Len(results) = 1 /\ ComponentStem(results[1]) = filtered[2].name

\* one step of a run, as the counter sees it
CounterStep ==
    script \in {"limeplay", "aceternity"} =>
      /\ completed' \in {completed, completed + 1}
      /\ (completed' = completed + 1) <=>
           (Len(SelectSeq(log', LAMBDA e : e.write = "none")) = Len(Processed) + 1)

\* C27: the progress counter of downloadComponents never decreases, grows by
\* exactly one with every processed entry and by nothing else, never exceeds
\* the size of the working set, and equals it once the batch has resolved.
C27_CounterCountsEveryEntry ==
    /\ [](script \in {"limeplay", "aceternity"} =>
            /\ completed = Len(Processed)
            /\ completed <= Len(filtered)
            /\ BatchResolved => completed = Len(filtered))
    /\ [][CounterStep]_vars

C27_Witness ==
    /\ script \in {"limeplay", "aceternity"} /\ BatchResolved
    /\ Len(filtered) > CONCURRENCY
    /\ completed = Len(filtered)
    /\ \E i \in 1..Len(Processed) : Processed[i].fetch = "failed"

\* the fetched components in the order of their entries in the working set:
\* what downloadComponents returns when the fetches complete in that order
HasResult(n) == \E c \in Range(results) : ComponentStem(c) = n
ResultOf(n) == CHOOSE c \in Range(results) : ComponentStem(c) = n
FetchedEntries == SelectSeq(filtered, LAMBDA e : HasResult(e.name))
ResultsInQueueOrder == [i \in 1..Len(FetchedEntries) |-> ResultOf(FetchedEntries[i].name)]

\* C28 (as claimed): for fixed upstream responses the files a limeplay or
\* aceternity run leaves are the same for every order in which the workers'
\* detail fetches complete: every item file holds the response for its name,
\* and index.json and registry.json are, apart from syncedAt, what the run
\* whose fetches complete in queue order writes.
C28_DiskIndependentOfCompletionOrder ==
    ( /\ script \in {"limeplay", "aceternity"}
      /\ pc = "Done" /\ ~opts.dryRun /\ Len(results) > 0
      /\ Distinct(SeqNames(filtered)) ) =>
        /\ \A n \in Names \ {"index"} :
             HasResult(n) => files[n] = JsonStringify(ResultOf(n))
        /\ \A f \in {"index", "registry"} :
             /\ files[f].text.itemCount = Len(results)
             /\ files[f].text.items = BuildMainIndex(ResultsInQueueOrder, Now).items

\* f.json holds an aggregate index written by this run
WrittenThisRun(fs, f) == IsAggregate(fs[f]) /\ fs[f].text.syncedAt = Now

\* every entry of the working set has been dealt with: in sync the loop over
\* filtered is over, in main the workers are done and each component is saved
ItemsSettled ==
    /\ queue = <<>> /\ \A w \in Workers : inflight[w] = NoEntry
    /\ IF script = "generic"
       THEN pos > Len(filtered) /\ transformed = NoItem
       ELSE /\ Len(Processed) = Len(filtered)
            /\ Len(SelectSeq(log, LAMBDA e : e.write = "ok")) = Len(results)

\* one step of a run, as the aggregate index files see it
IndexWriteStep ==
    /\ \A f \in {"index", "registry"} :
         (files'[f] # files[f] /\ IsAggregate(files'[f])) =>
           /\ ItemsSettled
           /\ ~WrittenThisRun(files, f)
           /\ requests' = requests /\ log' = log
           /\ \A s \in Stems \ {f} : files'[s] = files[s]
    /\ \A f \in {"index", "registry"} :
         WrittenThisRun(files, f) =>
           /\ requests' = requests /\ log' = log
           /\ files'[f] = files[f]
           /\ \A n \in Names : files'[n] = files[n]

\* C29: in every script index.json and registry.json are each written at most
\* once per run, in a step of their own that fetches and writes nothing else,
\* only when every worker has finished and every item file of the run has been
\* written, and no item is fetched or written afterwards.
C29_IndexWrittenOnceAtTheEnd == [][IndexWriteStep]_vars

C29_Witness ==
    /\ script = "limeplay" /\ pc = "Done"
    /\ Len(results) = 2
    /\ WrittenThisRun(files, "index") /\ WrittenThisRun(files, "registry")

\* a pipeline of source i has issued a step; every pipeline of source i that
\* was started has resolved or failed
HasStarted(i) == \E r \in Roles : frame.pipes[i][r].status # "none"
FullyResolved(i) ==
    \A r \in Roles : frame.pipes[i][r].status \in {"none", "done", "failed"}

\* C30 (as claimed): sync-all is strictly sequential: no fetch or write of a
\* source is issued while a pipeline of an earlier source is unresolved,
\* whether the sources' scripts export sync or run main() when loaded.
C30_SourcesStrictlySequential ==
    arg.fn = "syncAll" =>
      \A i, j \in 1..Len(arg.registryNames) :
        (i < j /\ HasStarted(j)) => FullyResolved(i)

\* sync-all's main has come to its end: it returned or the process exited
RunnerFinished == arg.fn = "syncAll" /\ frame.at \in {"returned", "exited"}

\* the pipeline of source k that sync-all awaits
AwaitedRole(k) == IF arg.registryNames[k] = "exportsSync" THEN "sync" ELSE "proc"

\* C31 (as claimed): sync-all records the failure of a source's pipeline and
\* goes on: when the runner has finished, results holds one record for each
\* discovered source, in discovery order, so succeeded + failed is the number
\* of sources.
C31_EverySourceRecorded ==
    RunnerFinished =>
      /\ Len(frame.results) = Len(arg.registryNames)
      /\ \A k \in 1..Len(frame.results) :
           frame.results[k] = (frame.pipes[k][AwaitedRole(k)].status = "done")

\* a source failed outright, or an item failed inside a pipeline that completed
SourceFailed(k) == \E r \in Roles : frame.pipes[k][r].status = "failed"
ItemFailedIn(k) ==
    \E r \in Roles : /\ frame.pipes[k][r].status = "done"
                     /\ frame.pipes[k][r].itemFailed

\* C32 (as claimed): over at least one source, sync-all ends with a non-zero
\* exit status iff a source failed outright or an item failed inside a
\* pipeline that completed.
C32_ExitStatusReflectsFailures ==
    (RunnerFinished /\ arg.registryNames # <<>>) =>
      ( ret.value.exitCode # 0 <=>
          \E k \in 1..Len(arg.registryNames) :
              SourceFailed(k) \/ ItemFailedIn(k) )

\* the exit status of a sync script that has ended: main's catch, or the catch
\* on sync(options), calls process.exit(1); otherwise the process ends with 0
ScriptEnded == pc \in {"Done", "Failed"}
ExitStatus == IF pc = "Failed" THEN 1 ELSE 0

\* a working-set entry failed to be fetched, validated or written in this run
ItemFailure ==
    \/ script = "generic" /\ Len(result.failed) > 0
    \/ \E i \in 1..Len(log) : log[i].fetch = "failed" \/ log[i].write = "failed"

\* C33 (as claimed): a sync script exits with 0 only on full success: a run
\* whose index fetch fails, or in which an entry of the working set fails to
\* be fetched, validated or written, ends with exit status 1.
C33_PartialFailureExitsOne ==
    ScriptEnded =>
      ((failedAt = "FetchingIndex" \/ ItemFailure) => ExitStatus = 1)

\* the item files of source k as verify found them, and how it classified them
ItemFilesOf(k) ==
    IF arg.dirs[k].dirExists
    THEN { s \in {"a", "b"} : arg.dirs[k].files[s] # NoFile } ELSE {}
ClassifiedAs(list, k) == { list[i].file : i \in { j \in 1..Len(list) : list[j].source = k } }

\* the file holds JSON for which the validator returns valid
HoldsValidItem(f) ==
    /\ "text" \in DOMAIN f
    /\ ~validateRegistryItem(f.text).threw
    /\ validateRegistryItem(f.text).valid

StartedRoles(k) == { r \in Roles : frame.pipes[k][r].status # "none" }
RunningRoles(k) == { r \in Roles : frame.pipes[k][r].status = "running" }

\* C35 (as claimed): in one run of sync-all the pipeline of each source is
\* executed at most once: never are a run started by loading the script and
\* a run in a subprocess both at work on the same output directory.
C35_PipelineRunsAtMostOnce ==
    arg.fn = "syncAll" =>
      \A k \in 1..Len(arg.registryNames) :
        /\ Cardinality(StartedRoles(k)) <= 1
        /\ Cardinality(RunningRoles(k)) <= 1

\* the names index.json lists
ListedNames ==
    IF IsAggregate(files["index"])
    THEN { files["index"].text.items[i].name :
             i \in 1..Len(files["index"].text.items) }
    ELSE {}

\* n.json holds an item that passes validation
HasValidItemFile(n) ==
    /\ files[n] # NoFile /\ ~IsAggregate(files[n])
    /\ validateRegistryItem(files[n].text).valid

\* C36 (as claimed): at every moment of a run of the generic sync over an
\* output directory left by earlier runs, every name index.json lists has an
\* item file of that name holding a validated item.
C36_ListedItemsAreOnDisk ==
    script = "generic" => \A n \in ListedNames : HasValidItemFile(n)

\* C37 (as claimed): in the SyncResult sync returns, success and the names
\* in failed are disjoint, and every entry of the working set is in exactly
\* one of them, so their lengths add up to the size of the working set.
C37_SuccessAndFailedPartition ==
    (script = "generic" /\ pc = "Done") =>
      /\ Range(result.success) \cap Range(SeqNames(result.failed)) = {}
      /\ Len(result.success) + Len(result.failed) = Len(filtered)

\* verifyRegistryOutput over a directory whose files can all be read: the
\* files it reports as valid and as invalid
verifyRegistryOutput(dir) ==
    LET jsonFiles == IF dir.dirExists
                     THEN { s \in DOMAIN dir.files :
                              /\ dir.files[s] # NoFile
                              /\ s # "index" /\ s # "registry" }
                     ELSE {}
        valid == { s \in jsonFiles : HoldsValidItem(dir.files[s]) }
    IN [valid |-> valid, invalid |-> jsonFiles \ valid]

\* C38 (as claimed): every item file a non-dry-run of the generic sync wrote
\* is reported valid by a verify of the output directory right after it, and
\* after a sync into an empty directory verify reports no invalid file and
\* exits with 0.
C38_SyncThenVerify ==
    (script = "generic" /\ pc = "Done" /\ ~opts.dryRun) =>
      /\ SucceededNames \subseteq verifyRegistryOutput(Disk).valid
      /\ diskAtStart = EmptyDisk =>
           verifyRegistryOutput(Disk).invalid = {}

\* C39: in fetchWithRetry, shared and local, the first attempt that succeeds
\* is the last: its decoded value is returned, no attempt and no sleep follow
\* it, and no error of an earlier attempt is surfaced; a call that has ended
\* made between 1 and retries + 1 attempts.
C39_FirstSuccessEndsRetrieval ==
    arg.fn = "fetchWithRetry" =>
      LET n == Len(frame.tries) IN
      /\ n <= arg.retries + 1
      /\ \A i \in 1..(n - 1) : frame.tries[i].outcome = "error"
      /\ (n > 0 /\ frame.tries[n].outcome = "ok") =>
           /\ frame.at = "done"
           /\ ret = Returned(frame.tries[n].value)
           /\ Len(frame.sleeps) = n - 1
      /\ ret # NoCall =>
           /\ n >= 1
           /\ ret.fn = "returned" <=> frame.tries[n].outcome = "ok"

C39_Witness ==
    /\ arg.fn = "fetchWithRetry" /\ arg.retries = 3
    /\ Len(frame.tries) = 2
    /\ frame.tries[1].outcome = "error"
    /\ ret = Returned(Item("a", "bogus"))

\* C40: in limeplay and aceternity, when downloadComponents returns no
\* component (the working set is empty or every detail fetch failed), main
\* ends at once with exit status 0 and the output directory is as it was
\* found, index.json and registry.json included; and a script that exits
\* with 1 failed at the index fetch or at a write, never at a detail fetch.
C40_NothingDownloadedNothingWritten ==
    script \in {"limeplay", "aceternity"} =>
      /\ (BatchResolved /\ Len(results) = 0) =>
           /\ pc = "Done" /\ ExitStatus = 0
           /\ Disk = diskAtStart
           /\ \A i \in 1..Len(log) : log[i].write = "none"
      /\ (ScriptEnded /\ ExitStatus = 1) =>
           failedAt \in {"FetchingIndex", "Persisting", "GeneratingIndex"}

C40_Witness ==
    /\ script = "limeplay" /\ pc = "Done" /\ ~opts.dryRun
    /\ Len(filtered) = 2 /\ Len(failed) = 2 /\ results = << >>
    /\ diskAtStart = SyncedDisk(script, config)

====
